---- MODULE Spec2Model ----
(***************************************************************************)
(* Verification model of docker-tracer (ShaulAb/docker-tracer).            *)
(*                                                                         *)
(* The module holds one state machine per component of the repository:     *)
(*   SpecNorm     app/services/dockersdk/command_utils.py                  *)
(*   SpecParse    app/services/sbom_generator/dockerfile_analyzer.py       *)
(*   SpecPackage  app/services/dockersdk/utils.py                          *)
(*   SpecMatch    app/services/dockersdk/match_analyzer.py, app/config.py  *)
(*   SpecInspect  app/services/sbom_generator/container_analyzer.py        *)
(* Every specification constrains all variables; the variables of the      *)
(* components it does not run stay at their idle values.                   *)
(*                                                                         *)
(* Text is a sequence of one-character strings, so that tokenizing,        *)
(* stripping, splitting and literal parsing are computed, not assumed.     *)
(* Python's None is the empty option <<>>, a present value v is <<v>>.     *)
(***************************************************************************)
EXTENDS Integers, Sequences, FiniteSets, TLC

\* DockerCommandNormalizer: two command values, what normalize returned for
\* each, what it returned for the first result, and what commands_equal said
VARIABLES cmd1In, cmd2In, cmd1, cmd2, again, eq

\* DockerfileAnalyzer: the Dockerfile, its instructions and its analysis
VARIABLES content, instructions, analysis

\* parse_package_command: the command and what was returned for it
VARIABLES command, package_command

\* DockerfileMatchAnalyzer: the settings loaded, the analysis and the image
\* handed to analyze_match, self._metadata, and the report
VARIABLES settings, dockerfile, image, self_metadata, report, match_calls

\* DockerImageInspector: self.image_cache, the inspect_image calls, the
\* images of the Docker Engine, and the references a call has returned for
VARIABLES image_cache, calls, engine, returned

\* the settings loader: the values offered for the matching settings, and
\* whether loading them went through
VARIABLES candidate, loaded

\* DockerfileImageMatcher: the arguments of the scorer that runs, and what
\* it returned
VARIABLES bench_args, bench_scores

\* SBOMStorage and the /sbom endpoints: the rows of the table sboms, and the
\* requests answered so far with their responses
VARIABLES sboms, responses

normVars == <<cmd1In, cmd2In, cmd1, cmd2, again, eq>>
parseVars == <<content, instructions, analysis>>
packageVars == <<command, package_command>>
matchVars == <<settings, dockerfile, image, self_metadata, report, match_calls>>
inspectVars == <<image_cache, calls, engine, returned>>
loadVars == <<candidate, loaded>>
benchVars == <<bench_args, bench_scores>>
sbomVars == <<sboms, responses>>

vars == <<normVars, parseVars, packageVars, matchVars, inspectVars, loadVars, benchVars, sbomVars>>

----------------------------------------------------------------------------
(* Bounds of the model *)

\* most pieces concatenated into one shell-form input string
MaxPieces == 4
\* most elements of an exec-form input list
MaxListLen == 3
\* most characters of a shell command text c in an exec/shell dual pair
MaxTextLen == 3

----------------------------------------------------------------------------
(* Text helpers *)

SetMin(S) == CHOOSE x \in S : \A y \in S : x <= y
SetMax(S) == CHOOSE x \in S : \A y \in S : x >= y

\* str.strip(): drop leading and trailing whitespace
Strip(s) ==
    LET idx == {i \in 1..Len(s) : s[i] # " "}
    IN IF idx = {} THEN <<>> ELSE SubSeq(s, SetMin(idx), SetMax(idx))

\* str.lstrip()
LStrip(s) ==
    LET idx == {i \in 1..Len(s) : s[i] # " "}
    IN IF idx = {} THEN <<>> ELSE SubSeq(s, SetMin(idx), Len(s))

\* str.split(ch): the segments between occurrences of ch, empty ones kept
RECURSIVE SplitOn(_, _)
SplitOn(s, ch) ==
    LET hits == {i \in 1..Len(s) : s[i] = ch}
    IN IF hits = {} THEN <<s>>
       ELSE LET k == SetMin(hits)
            IN <<SubSeq(s, 1, k - 1)>> \o SplitOn(SubSeq(s, k + 1, Len(s)), ch)

\* str.split(): split on runs of whitespace, no empty tokens
SplitWs(s) == SelectSeq(SplitOn(s, " "), LAMBDA t : t # <<>>)

\* sep.join(parts)
RECURSIVE Join(_, _)
Join(parts, sep) ==
    IF parts = <<>> THEN <<>>
    ELSE IF Len(parts) = 1 THEN parts[1]
    ELSE parts[1] \o sep \o Join(Tail(parts), sep)

\* concatenation of a sequence of texts
RECURSIVE Concat(_)
Concat(parts) == IF parts = <<>> THEN <<>> ELSE parts[1] \o Concat(Tail(parts))

StartsWith(s, ch) == Len(s) >= 1 /\ s[1] = ch
EndsWith(s, ch) == Len(s) >= 1 /\ s[Len(s)] = ch

\* all sequences over S of length 0..n
SeqsUpTo(S, n) == UNION {[1..k -> S] : k \in 0..n}

----------------------------------------------------------------------------
(* Python values handed to and produced inside normalize.                  *)
(* t is the type, v the text (str, name) or the items (list, set).         *)

PyNone == [t |-> "none", v |-> <<>>]
PyStr(s) == [t |-> "str", v |-> s]
PyList(items) == [t |-> "list", v |-> items]
PySet(items) == [t |-> "set", v |-> items]
PyDict == [t |-> "dict", v |-> <<>>]
PyName(s) == [t |-> "name", v |-> s]
\* a value that is neither None, str nor list (an int, a NormalizedCommand)
PyOther == [t |-> "other", v |-> <<>>]

----------------------------------------------------------------------------
(* ast.literal_eval, as _try_parse_json_string uses it.                    *)
(*                                                                         *)
(* The parser covers the literal grammar the inputs of this model can      *)
(* spell: single- and triple-quoted strings (adjacent literals             *)
(* concatenate), names, lists, sets and the empty dict, with optional      *)
(* spaces and a trailing comma. Text outside this grammar is a             *)
(* SyntaxError.                                                            *)

IsLetter(ch) == ch \in {"a", "b", "c", "h", "i", "n", "s"}

\* index of the first non-space character at or after i (Len(s)+1 if none)
SkipWs(s, i) ==
    LET idx == {j \in i..Len(s) : s[j] # " "}
    IN IF idx = {} THEN Len(s) + 1 ELSE SetMin(idx)

ParseFail == [ok |-> FALSE, node |-> PyNone, next |-> 0]
ParseOk(node, next) == [ok |-> TRUE, node |-> node, next |-> next]

\* one string literal starting at the quote s[i]
ParseStrLit(s, i) ==
    IF i + 2 <= Len(s) /\ s[i + 1] = "'" /\ s[i + 2] = "'"
    THEN LET closes == {j \in (i + 3)..(Len(s) - 2) :
                            s[j] = "'" /\ s[j + 1] = "'" /\ s[j + 2] = "'"}
         IN IF closes = {} THEN ParseFail
            ELSE ParseOk(PyStr(SubSeq(s, i + 3, SetMin(closes) - 1)), SetMin(closes) + 3)
    ELSE LET closes == {j \in (i + 1)..Len(s) : s[j] = "'"}
         IN IF closes = {} THEN ParseFail
            ELSE ParseOk(PyStr(SubSeq(s, i + 1, SetMin(closes) - 1)), SetMin(closes) + 1)

RECURSIVE ParseStrs(_, _)
RECURSIVE ParseValueAt(_, _)
RECURSIVE ParseItemsAt(_, _, _, _)

\* first is a parsed string literal and rest the run of literals after it
ParseStrsJoin(first, rest) ==
    IF ~rest.ok THEN ParseFail
    ELSE ParseOk(PyStr(first.node.v \o rest.node.v), rest.next)

\* first is a parsed string literal and j the next non-space position
ParseStrsMore(s, first, j) ==
    IF j <= Len(s) /\ s[j] = "'" THEN ParseStrsJoin(first, ParseStrs(s, j)) ELSE first

ParseStrsAfter(s, first) ==
    IF ~first.ok THEN ParseFail ELSE ParseStrsMore(s, first, SkipWs(s, first.next))

\* a run of adjacent string literals, concatenated
ParseStrs(s, i) == ParseStrsAfter(s, ParseStrLit(s, i))

ParseNameTo(s, i, end) == ParseOk(PyName(SubSeq(s, i, end - 1)), end)

ParseName(s, i) ==
    ParseNameTo(s, i, SetMin({j \in i..(Len(s) + 1) : j > Len(s) \/ ~IsLetter(s[j])}))

\* r is the item just parsed and k the next non-space position after it
ParseItemsSep(s, r, k, close, acc) ==
    IF k > Len(s) THEN ParseFail
    ELSE IF s[k] = "," THEN ParseItemsAt(s, SkipWs(s, k + 1), close, Append(acc, r.node))
    ELSE IF s[k] = close THEN ParseOk(Append(acc, r.node), k + 1)
    ELSE ParseFail

ParseItemsAfter(s, r, close, acc) ==
    IF ~r.ok THEN ParseFail ELSE ParseItemsSep(s, r, SkipWs(s, r.next), close, acc)

\* the items of a display up to its closing bracket; j is the first
\* non-space position after the opening bracket or after a comma
ParseItemsAt(s, j, close, acc) ==
    IF j > Len(s) THEN ParseFail
    ELSE IF s[j] = close THEN ParseOk(acc, j + 1)
    ELSE ParseItemsAfter(s, ParseValueAt(s, j), close, acc)

ParseListOf(r) == IF r.ok THEN ParseOk(PyList(r.node), r.next) ELSE ParseFail

ParseSetOf(r) ==
    IF ~r.ok THEN ParseFail
    ELSE IF r.node = <<>> THEN ParseOk(PyDict, r.next)
    ELSE ParseOk(PySet(r.node), r.next)

\* the value whose first character is s[j]
ParseValueAt(s, j) ==
    IF j > Len(s) THEN ParseFail
    ELSE IF s[j] = "'" THEN ParseStrs(s, j)
    ELSE IF s[j] = "[" THEN ParseListOf(ParseItemsAt(s, SkipWs(s, j + 1), "]", <<>>))
    ELSE IF s[j] = "{" THEN ParseSetOf(ParseItemsAt(s, SkipWs(s, j + 1), "}", <<>>))
    ELSE IF IsLetter(s[j]) THEN ParseName(s, j)
    ELSE ParseFail

ParseWhole(s, r) == IF r.ok /\ SkipWs(s, r.next) > Len(s) THEN r ELSE ParseFail

\* ast.parse(text, mode='eval'): one expression, nothing after it
ParseExpression(s) == ParseWhole(s, ParseValueAt(s, SkipWs(s, 1)))

ConvOk(val) == [tag |-> "ok", val |-> val]
ConvErr(exc) == [tag |-> exc, val |-> PyNone]

IsHashable(val) == val.t \notin {"list", "set", "dict"}

RECURSIVE Convert(_)
RECURSIVE ConvertItems(_, _, _)

\* c is the first item converted; building a set hashes it at once
ConvertItemsAfter(c, items, acc, intoSet) ==
    IF c.tag # "ok" THEN c
    ELSE IF intoSet /\ ~IsHashable(c.val) THEN ConvErr("TypeError")
    ELSE ConvertItems(Tail(items), Append(acc, c.val), intoSet)

\* the items of a list or set display, left to right
ConvertItems(items, acc, intoSet) ==
    IF items = <<>> THEN ConvOk(acc)
    ELSE ConvertItemsAfter(Convert(items[1]), items, acc, intoSet)

ConvertedList(c) == IF c.tag = "ok" THEN ConvOk(PyList(c.val)) ELSE c
ConvertedSet(c) == IF c.tag = "ok" THEN ConvOk(PySet(c.val)) ELSE c

\* literal_eval's _convert: a name is a malformed node
Convert(node) ==
    IF node.t = "str" \/ node.t = "dict" THEN ConvOk(node)
    ELSE IF node.t = "list" THEN ConvertedList(ConvertItems(node.v, <<>>, FALSE))
    ELSE IF node.t = "set" THEN ConvertedSet(ConvertItems(node.v, <<>>, TRUE))
    ELSE ConvErr("ValueError")

ConvertParsed(r) == IF ~r.ok THEN ConvErr("SyntaxError") ELSE Convert(r.node)

\* ast.literal_eval(text): leading blanks are dropped before parsing
LiteralEval(s) == ConvertParsed(ParseExpression(LStrip(s)))

\* what _try_parse_json_string makes of literal_eval's outcome r
TryParseResult(r) ==
    IF r.tag = "ok"
    THEN IF r.val.t \in {"str", "list"} THEN [tag |-> "value", val |-> r.val]
         ELSE [tag |-> "none", val |-> PyNone]
    ELSE IF r.tag \in {"ValueError", "SyntaxError"} THEN [tag |-> "none", val |-> PyNone]
    ELSE [tag |-> "raise", val |-> PyNone]

\* _try_parse_json_string: the parsed str or list, None for any other value
\* and for ValueError and SyntaxError; every other exception escapes
TryParseJsonString(s) == TryParseResult(LiteralEval(s))

\* repr() of a parsed value, which str() of a non-string list item gives
RECURSIVE Repr(_)
Repr(val) ==
    IF val.t = "str" THEN <<"'">> \o val.v \o <<"'">>
    ELSE IF val.t = "list" THEN
         <<"[">> \o Join([k \in 1..Len(val.v) |-> Repr(val.v[k])], <<",", " ">>) \o <<"]">>
    ELSE IF val.t = "set" THEN
         <<"{">> \o Join([k \in 1..Len(val.v) |-> Repr(val.v[k])], <<",", " ">>) \o <<"}">>
    ELSE <<"{", "}">>

\* str(x) of a list item
StrOf(val) == IF val.t = "str" THEN val.v ELSE Repr(val)


----------------------------------------------------------------------------
(* shlex.split(cmd): POSIX mode, whitespace_split, no comments.            *)
(* Of the characters of this model only the space and the single quote     *)
(* are special to it.                                                      *)

\* state "s": between tokens, "a": inside a word, "q": inside quotes.
\* quoted: the token being read has seen a quote (an empty quoted token
\* is still a token).
RECURSIVE ShlexScan(_, _, _, _, _, _)
ShlexScan(s, i, state, token, quoted, acc) ==
    IF i > Len(s)
    THEN IF state = "q" THEN [ok |-> FALSE, toks |-> <<>>]   \* No closing quotation
         ELSE [ok |-> TRUE,
               toks |-> IF token # <<>> \/ quoted THEN Append(acc, token) ELSE acc]
    ELSE LET ch == s[i]
         IN IF state = "s"
            THEN IF ch = " " THEN ShlexScan(s, i + 1, "s", <<>>, FALSE, acc)
                 ELSE IF ch = "'" THEN ShlexScan(s, i + 1, "q", <<>>, TRUE, acc)
                 ELSE ShlexScan(s, i + 1, "a", <<ch>>, FALSE, acc)
            ELSE IF state = "q"
            THEN IF ch = "'" THEN ShlexScan(s, i + 1, "a", token, TRUE, acc)
                 ELSE ShlexScan(s, i + 1, "q", Append(token, ch), TRUE, acc)
            ELSE IF ch = " "
                 THEN ShlexScan(s, i + 1, "s", <<>>, FALSE,
                                IF token # <<>> \/ quoted THEN Append(acc, token) ELSE acc)
                 ELSE IF ch = "'" THEN ShlexScan(s, i + 1, "q", token, TRUE, acc)
                 ELSE ShlexScan(s, i + 1, "a", Append(token, ch), quoted, acc)

ShlexSplit(s) == ShlexScan(s, 1, "s", <<>>, FALSE, <<>>)

----------------------------------------------------------------------------
(* DockerCommandNormalizer *)

None == <<>>
Some(x) == <<x>>
\* Python truthiness of an Optional[str]: set and not empty
Truthy(opt) == opt # <<>> /\ opt[1] # <<>>

DASH_C == <<"-", "c">>
SH == <<"s", "h">>
BASH == <<"b", "a", "s", "h">>
BIN_SH == <<"/", "b", "i", "n", "/", "s", "h">>
BIN_BASH == <<"/", "b", "i", "n", "/", "b", "a", "s", "h">>

SHELL_COMMANDS == {BIN_SH, BIN_BASH, SH, BASH}

NormalizedCommand(executable, args, is_shell_form, shell_command) ==
    [executable |-> executable, args |-> args,
     is_shell_form |-> is_shell_form, shell_command |-> shell_command]

EmptyCommand == NormalizedCommand(<<>>, <<>>, FALSE, None)

\* Path(path).name: the last non-empty component ('' if there is none)
NormalizePath(path) ==
    LET comps == SelectSeq(SplitOn(path, "/"), LAMBDA t : t # <<>>)
    IN IF comps = <<>> THEN <<>> ELSE comps[Len(comps)]

\* _normalize_args: drop empty args, reduce path-like args to their name, strip
NormalizeArgs(args) ==
    LET kept == SelectSeq(args, LAMBDA a : a # <<>>)
    IN [k \in 1..Len(kept) |->
            Strip(IF \E i \in 1..Len(kept[k]) : kept[k][i] = "/"
                  THEN NormalizePath(kept[k]) ELSE kept[k])]

\* _extract_shell_command
ExtractShellCommand(executable, args) ==
    IF NormalizePath(executable) \in SHELL_COMMANDS /\ Len(args) >= 2 /\ args[1] = DASH_C
    THEN Some(Join(Tail(args), <<" ">>))
    ELSE None

\* the result of _parse_shell_command for an executable, its args and
\* what _extract_shell_command returned for them
ShellTriple(executable, args, shell_cmd) ==
    IF Truthy(shell_cmd)
    THEN [executable |-> executable, args |-> <<DASH_C, shell_cmd[1]>>, shell_cmd |-> shell_cmd]
    ELSE [executable |-> executable, args |-> args, shell_cmd |-> None]

\* the (executable, args, shell_cmd) both branches of _parse_shell_command
\* build from the split parts
ShellParts(parts) ==
    IF parts = <<>> THEN [executable |-> <<>>, args |-> <<>>, shell_cmd |-> None]
    ELSE ShellTriple(parts[1], Tail(parts), ExtractShellCommand(parts[1], Tail(parts)))

ShellPartsOf(r, cmd) == IF r.ok THEN ShellParts(r.toks) ELSE ShellParts(SplitWs(cmd))

\* _parse_shell_command: shlex.split, and on its ValueError a plain split()
ParseShellCommand(cmd) == ShellPartsOf(ShlexSplit(cmd), cmd)

Returned(nc) == [tag |-> "ok", nc |-> nc]
Raised == [tag |-> "raise", nc |-> EmptyCommand]

ListCommand(executable, args, shell_cmd) ==
    NormalizedCommand(executable,
                      IF Truthy(shell_cmd) THEN <<DASH_C, shell_cmd[1]>> ELSE args,
                      FALSE, shell_cmd)

ListCommandOf(executable, args) ==
    ListCommand(executable, args, ExtractShellCommand(executable, args))

\* the regular list processing of normalize
NormalizeList(items) ==
    ListCommandOf(Strip(StrOf(items[1])),
                  [k \in 1..(Len(items) - 1) |-> Strip(StrOf(items[k + 1]))])

ShellCommandOf(p) == NormalizedCommand(p.executable, p.args, TRUE, p.shell_cmd)

\* the shell-form processing of normalize
NormalizeShell(cmd) == ShellCommandOf(ParseShellCommand(cmd))

\* normalize on a value that is neither None, a list nor a str
NormalizeUnexpected(cmd) == Returned(EmptyCommand)

RECURSIVE Normalize(_)

\* parsed is what _try_parse_json_string returned; otherwise is the
\* command built when it returned None
NormalizeParsed(parsed, otherwise) ==
    IF parsed.tag = "raise" THEN Raised
    ELSE IF parsed.tag = "value" THEN Normalize(parsed.val)
    ELSE Returned(otherwise)

\* normalize on a str, already stripped
NormalizeStr(text) ==
    IF StartsWith(text, "[") /\ EndsWith(text, "]")
    THEN NormalizeParsed(TryParseJsonString(text), NormalizeShell(text))
    ELSE Returned(NormalizeShell(text))

\* normalize(cmd): Returned(NormalizedCommand), or Raised when an exception
\* leaves it
Normalize(cmd) ==
    IF cmd.t = "none" THEN Returned(EmptyCommand)
    ELSE IF cmd.t = "list" THEN
        IF cmd.v = <<>> THEN Returned(EmptyCommand)
        ELSE IF Len(cmd.v) = 1 /\ cmd.v[1].t = "str"
        THEN NormalizeParsed(TryParseJsonString(cmd.v[1].v), NormalizeList(cmd.v))
        ELSE Returned(NormalizeList(cmd.v))
    ELSE IF cmd.t = "str" THEN NormalizeStr(Strip(cmd.v))
    ELSE NormalizeUnexpected(cmd)

\* commands_equal(cmd1, cmd2, ignore_path)
CommandsEqual(c1, c2, ignore_path) ==
    IF c1.executable = <<>> /\ c2.executable = <<>> THEN TRUE
    ELSE LET exec1 == IF ignore_path THEN NormalizePath(c1.executable) ELSE c1.executable
             exec2 == IF ignore_path THEN NormalizePath(c2.executable) ELSE c2.executable
         IN IF Strip(exec1) # Strip(exec2) THEN FALSE
            ELSE IF Truthy(c1.shell_command) /\ Truthy(c2.shell_command)
                 THEN Strip(c1.shell_command[1]) = Strip(c2.shell_command[1])
            ELSE IF Truthy(c1.shell_command) \/ Truthy(c2.shell_command) THEN FALSE
            ELSE LET args1 == NormalizeArgs(c1.args)
                     args2 == NormalizeArgs(c2.args)
                 IN IF Len(args1) # Len(args2) THEN FALSE
                    ELSE \A k \in 1..Len(args1) : args1[k] = args2[k]


----------------------------------------------------------------------------
(* SpecNorm: command values are normalized and compared *)

Q(s) == <<"'">> \o s \o <<"'">>
SP == <<" ">>
COMMA == <<",">>

\* pieces a shell-form input string is concatenated from
StrPieces == {SH \o SP, BIN_SH \o SP, DASH_C \o SP, <<"a">>, SP, <<"'">>}

ShellTexts == {Concat(p) : p \in SeqsUpTo(StrPieces, MaxPieces)}

\* bracketed and literal input strings
LiteralTexts ==
    { <<"[", "]">>,                                               \* []
      <<"[">> \o Q(SH) \o COMMA \o Q(DASH_C) \o COMMA \o Q(<<"a">>) \o <<"]">>,
                                                                  \* ['sh','-c','a']
      <<"[">> \o Q(<<"a">>) \o <<"]">>,                           \* ['a']
      <<"[", "a", "]">>,                                          \* [a]
      <<"[", "{", "[", "]", "}", "]">>,                           \* [{[]}]
      <<"[", "[">> \o Q(<<"a">>) \o <<"]", ",", " ">> \o Q(<<"a">>) \o <<"]">>,
                                                                  \* [['a'], 'a']
      <<"[", "{">> \o Q(<<"a">>) \o <<"}", "]">>,                 \* [{'a'}]
      <<"[", "{", "}", "]">>,                                     \* [{}]
      <<"[", " ">> \o Q(<<"a">>) \o <<" ", ",", " ", "]">>,       \* [ 'a' , ]
      <<"[">> \o Q(<<"a">>) }                                     \* ['a'

\* the strings an exec-form input list is made of
ListElems ==
    { SH, BIN_SH, DASH_C, <<"a">>, <<>>, <<" ", "a", " ">>, Q(<<"a", " ", "a">>),
      <<"[", "{", "[", "]", "}", "]">>,
      <<"[">> \o Q(SH) \o COMMA \o Q(DASH_C) \o COMMA \o Q(<<"a">>) \o <<"]">> }

StrList(items) == PyList([k \in 1..Len(items) |-> PyStr(items[k])])

GeneralInputs ==
    {PyNone, PyOther}
    \cup {PyStr(t) : t \in ShellTexts \cup LiteralTexts}
    \cup {StrList(l) : l \in SeqsUpTo(ListElems, MaxListLen)}

ShellExecs == {SH, BASH, BIN_SH, BIN_BASH}
SameBasename(s) == {t \in ShellExecs : NormalizePath(t) = NormalizePath(s)}

TextChars == {"a", " ", "'"}
CommandTexts == SeqsUpTo(TextChars, MaxTextLen)

\* the exec form [s, "-c", c] and the shell form  s' -c 'c'
ExecForm(s, c) == StrList(<<s, DASH_C, c>>)
ShellForm(s, c) == PyStr(s \o SP \o DASH_C \o SP \o Q(c))

\* exec form against shell form of the same command text
DualPairs ==
    UNION {{<<ExecForm(s, c), ShellForm(t, c)>> : t \in SameBasename(s), c \in CommandTexts} :
                s \in ShellExecs}

\* exec form against exec form (Dockerfile ENTRYPOINT against image Entrypoint)
ExecPairs ==
    UNION {{<<ExecForm(s, c), ExecForm(t, c)>> : t \in SameBasename(s), c \in CommandTexts} :
                s \in ShellExecs}

NormPairs == DualPairs \cup ExecPairs \cup {<<x, x>> : x \in GeneralInputs}

Unset == [tag |-> "unset", nc |-> EmptyCommand]

\* the NormalizedCommand object itself, handed to normalize as its argument
PyCommand(nc) == [t |-> "command", v |-> nc]

NormIdle ==
    /\ cmd1In = PyNone /\ cmd2In = PyNone
    /\ cmd1 = Unset /\ cmd2 = Unset /\ again = Unset /\ eq = "unset"

InitNorm ==
    /\ \E p \in NormPairs : cmd1In = p[1] /\ cmd2In = p[2]
    /\ cmd1 = Unset
    /\ cmd2 = Unset
    /\ again = Unset
    /\ eq = "unset"

\* cmd1 = DockerCommandNormalizer.normalize(cmd1In)
NormalizeFirst ==
    /\ cmd1 = Unset
    /\ cmd1' = Normalize(cmd1In)
    /\ UNCHANGED <<cmd1In, cmd2In, cmd2, again, eq, parseVars, packageVars, matchVars, inspectVars, loadVars, benchVars, sbomVars>>

\* cmd2 = DockerCommandNormalizer.normalize(cmd2In)
NormalizeSecond ==
    /\ cmd2 = Unset
    /\ cmd2' = Normalize(cmd2In)
    /\ UNCHANGED <<cmd1In, cmd2In, cmd1, again, eq, parseVars, packageVars, matchVars, inspectVars, loadVars, benchVars, sbomVars>>

\* again = DockerCommandNormalizer.normalize(cmd1)
NormalizeAgain ==
    /\ cmd1.tag = "ok"
    /\ again = Unset
    /\ again' = Normalize(PyCommand(cmd1.nc))
    /\ UNCHANGED <<cmd1In, cmd2In, cmd1, cmd2, eq, parseVars, packageVars, matchVars, inspectVars, loadVars, benchVars, sbomVars>>

\* eq = DockerCommandNormalizer.commands_equal(cmd1, cmd2, ignore_path=True)
CompareCommands ==
    /\ cmd1.tag = "ok"
    /\ cmd2.tag = "ok"
    /\ eq = "unset"
    /\ eq' = IF CommandsEqual(cmd1.nc, cmd2.nc, TRUE) THEN "true" ELSE "false"
    /\ UNCHANGED <<cmd1In, cmd2In, cmd1, cmd2, again, parseVars, packageVars, matchVars, inspectVars, loadVars, benchVars, sbomVars>>

NextNorm == NormalizeFirst \/ NormalizeSecond \/ NormalizeAgain \/ CompareCommands

\* the values the signature of normalize names: None, a str, a list
IsStringOrList(x) == x.t \in {"none", "str", "list"}

\* basename(executable) is sh or bash, at least two args, args[0] == "-c"
LooksLikeShell(nc) ==
    /\ NormalizePath(nc.executable) \in {SH, BASH}
    /\ Len(nc.args) >= 2
    /\ nc.args[1] = DASH_C

\* C3: exec/shell duality: once the exec form [s, "-c", c] and the shell form
\* s' -c 'c' (s' with the basename of s), or the exec forms of s and s', have
\* been normalized and compared with ignore_path, the comparison said true.
C3_ExecShellDuality ==
    (<<cmd1In, cmd2In>> \in DualPairs \cup ExecPairs /\ eq # "unset") => eq = "true"

\* ["sh", "-c", " "] against  sh -c ' '  compared unequal
C3_BlankTextUnequal ==
    /\ cmd1In = ExecForm(SH, SP)
    /\ cmd2In = ShellForm(SH, SP)
    /\ cmd1.nc.shell_command = Some(<<>>)
    /\ cmd2.nc.shell_command = Some(SP)
    /\ eq = "false"

\* C4: normalize is idempotent: for x absent, a string or a list of strings,
\* normalizing the result of normalize(x) again returns a NormalizedCommand
\* equal to normalize(x).
C4_NormalizeIdempotent ==
    (IsStringOrList(cmd1In) /\ again # Unset) => again = cmd1

\* normalize(normalize(["sh"])) is the empty command, normalize(["sh"]) is not
C4_SecondPassEmpty ==
    /\ cmd1In = StrList(<<SH>>)
    /\ cmd1 = Returned(NormalizedCommand(SH, <<>>, FALSE, None))
    /\ again = Returned(EmptyCommand)

\* C5: for every NormalizedCommand normalize produced from a string or a list,
\* shell_command is set exactly when basename(executable) is sh or bash, there
\* are at least two args and args[0] == "-c"; and when it is set, args is
\* ["-c", shell_command].
C5_ShellCommandSetExactly ==
    (cmd1In.t \in {"str", "list"} /\ cmd1.tag = "ok" /\ cmd1 # Unset) =>
        /\ (cmd1.nc.shell_command # None) <=> LooksLikeShell(cmd1.nc)
        /\ (cmd1.nc.shell_command # None) =>
                cmd1.nc.args = <<DASH_C, cmd1.nc.shell_command[1]>>

\* normalize("sh -c ''") has args ["-c", ""] and no shell_command
C5_EmptyTextNotSet ==
    /\ cmd1In = ShellForm(SH, <<>>)
    /\ cmd1 = Returned(NormalizedCommand(SH, <<DASH_C, <<>>>>, TRUE, None))

\* C6: normalize never raises: for every input value it returns a
\* NormalizedCommand.
C6_NormalizeNeverRaises == cmd1 # Unset => cmd1.tag = "ok"

\* normalize("[{[]}]") left by way of an exception
C6_SetOfListRaises ==
    /\ cmd1In = PyStr(<<"[", "{", "[", "]", "}", "]">>)
    /\ cmd1 = Raised

-----------------------------------------------------------------------------
(* SpecEquiv: commands_equal on three commands, every pair of them compared *)

\* the strings the compared exec-form lists are made of
EquivElems == {<<>>, <<"/">>, <<"a">>, <<"b">>}

\* lists of one or two strings, and [sh, -c, text]
EquivInputs ==
    {StrList(l) : l \in SeqsUpTo(EquivElems, 2) \ {<<>>}}
    \cup {ExecForm(SH, c) : c \in {<<"a">>, <<"b">>}}

\* the commands normalize returns for the lists
EquivCommands == {Normalize(x) : x \in EquivInputs}

\* the commands under comparison, by number
EquivCommand(i) == IF i = 1 THEN cmd1.nc ELSE IF i = 2 THEN cmd2.nc ELSE again.nc

InitEquiv ==
    /\ cmd1In = PyNone /\ cmd2In = PyNone
    /\ cmd1 \in EquivCommands
    /\ cmd2 \in EquivCommands
    /\ again \in EquivCommands
    /\ eq = <<>>

\* eq[<<i, j>>] = DockerCommandNormalizer.commands_equal(command i, command j)
CompareEachPair ==
    /\ eq = <<>>
    /\ eq' = [p \in (1..3) \X (1..3) |->
                CommandsEqual(EquivCommand(p[1]), EquivCommand(p[2]), TRUE)]
    /\ UNCHANGED <<cmd1In, cmd2In, cmd1, cmd2, again, parseVars, packageVars, matchVars, inspectVars, loadVars, benchVars, sbomVars>>

NextEquiv == CompareEachPair

EquivReflexive == \A i \in 1..3 : eq[<<i, i>>]
EquivSymmetric == \A i, j \in 1..3 : eq[<<i, j>>] => eq[<<j, i>>]
EquivTransitive ==
    \A i, j, k \in 1..3 : (eq[<<i, j>>] /\ eq[<<j, k>>]) => eq[<<i, k>>]

\* C28: commands_equal with ignore_path=True is an equivalence relation on
\* NormalizedCommands: reflexive, symmetric and transitive, also for commands
\* whose executable is empty or has an empty basename such as "/".
C28_CommandsEqualIsEquivalence ==
    eq # <<>> => (EquivReflexive /\ EquivSymmetric /\ EquivTransitive)

\* the executable "/" equals the empty executable with the same args, the
\* empty executable equals the empty executable with other args, and the
\* executable "/" does not equal the latter
C28_NotTransitive ==
    /\ eq # <<>>
    /\ cmd1.nc.executable = <<"/">>
    /\ cmd2.nc.executable = <<>>
    /\ again.nc.executable = <<>>
    /\ cmd1.nc.args = cmd2.nc.args
    /\ eq[<<1, 2>>] /\ eq[<<2, 3>>] /\ ~eq[<<1, 3>>]

\* over the same commands the comparison is reflexive and symmetric
C28_ReflexiveAndSymmetric ==
    eq # <<>> => (EquivReflexive /\ EquivSymmetric)

-----------------------------------------------------------------------------
(* DockerfileAnalyzer (sbom_generator/dockerfile_analyzer.py).  Dockerfile  *)
(* text is modelled word by word: a word is its letters in lower case (s)  *)
(* and its letter case (c): "lower", "upper", "mixed", or "none" for a     *)
(* word without letters.  A line is its words, whether it is a comment,    *)
(* and whether it ends in a backslash.                                      *)

MaxLines == 3

L(s) == [s |-> s, c |-> "lower"]
U(s) == [s |-> s, c |-> "upper"]
M(s) == [s |-> s, c |-> "mixed"]
N(s) == [s |-> s, c |-> "none"]

\* str.upper() and str.lower() of a word
Upper(w) == IF w.c = "none" THEN w ELSE U(w.s)
Lower(w) == IF w.c = "none" THEN w ELSE L(w.s)
LowerAll(words) == [k \in 1..Len(words) |-> Lower(words[k])]

\* the words with an '=' in them: what is before the first '=' and after it
EqParts ==
    [w \in {L("version=1"), M("version=2"), L("k=v")} |->
        IF w.s = "k=v" THEN <<L("k"), L("v")>>
        ELSE IF w.c = "mixed" THEN <<M("version"), N("2")>>
        ELSE <<L("version"), N("1")>>]

DockerInstruction(type, words, line_number, args) ==
    [type |-> type, content |-> words, line_number |-> line_number, args |-> args]

\* _parse_single_instruction: None for no words; RUN, LABEL and ENV keep the
\* rest of the instruction as one argument, the others one argument per word
ParseSingleInstruction(words, line_number) ==
    IF words = <<>> THEN None
    ELSE Some(DockerInstruction(
            Upper(words[1]), words, line_number,
            IF Upper(words[1]) \in {U("run"), U("label"), U("env")}
            THEN <<Tail(words)>>
            ELSE [k \in 1..(Len(words) - 1) |-> <<words[k + 1]>>]))

RECURSIVE ParseInstructionsFrom(_, _, _, _)

\* _parse_instructions from line n on; current holds the words of the
\* continuation lines read so far
ParseInstructionsFrom(lines, n, current, acc) ==
    IF n > Len(lines) THEN acc
    ELSE IF lines[n].comment \/ (lines[n].words = <<>> /\ ~lines[n].cont)
    THEN ParseInstructionsFrom(lines, n + 1, current, acc)
    ELSE IF lines[n].cont
    THEN ParseInstructionsFrom(lines, n + 1, current \o lines[n].words, acc)
    ELSE ParseInstructionsFrom(lines, n + 1, <<>>,
            acc \o ParseSingleInstruction(current \o lines[n].words, n))

\* _parse_instructions
ParseInstructions(lines) == ParseInstructionsFrom(lines, 1, <<>>, <<>>)

\* the positions of " as " in the lower-cased content: a word "as" with a
\* word before it and a word after it
AsPositions(words) == {i \in 2..(Len(words) - 1) : Lower(words[i]) = L("as")}

\* content.lower().split(" as ")[1].strip(), for the first separator at i
StageAfter(words, i) ==
    SubSeq(LowerAll(words), i + 1,
           SetMin({j - 1 : j \in {k \in AsPositions(words) : k >= i + 2}} \cup {Len(words)}))

\* the stages list the first FROM instruction leaves
StagesOf(inst) ==
    IF AsPositions(inst.content) = {} THEN <<>>
    ELSE <<StageAfter(inst.content, SetMin(AsPositions(inst.content)))>>

\* dict assignment metadata[key] = value
Put(m, key, value) == [x \in DOMAIN m \cup {key} |-> IF x = key THEN value ELSE m[x]]

RECURSIVE PutPairs(_, _, _)

\* the space-separated branch of _parse_labels: parts[i], parts[i + 1]
PutPairs(m, parts, i) ==
    IF i + 1 > Len(parts) THEN m
    ELSE PutPairs(Put(m, <<Lower(parts[i])>>, <<parts[i + 1]>>), parts, i + 2)

\* the key=value branch of _parse_labels, the first '=' being in word i
PutEq(m, words, i) ==
    Put(m, LowerAll(SubSeq(words, 1, i - 1) \o <<EqParts[words[i]][1]>>),
           <<EqParts[words[i]][2]>> \o SubSeq(words, i + 1, Len(words)))

\* _parse_labels(content, metadata)
ParseLabels(words, m) ==
    IF \E i \in 1..Len(words) : words[i] \in DOMAIN EqParts
    THEN PutEq(m, words, SetMin({i \in 1..Len(words) : words[i] \in DOMAIN EqParts}))
    ELSE PutPairs(m, words, 1)

RECURSIVE LabelsOf(_, _, _)

\* the metadata the LABEL instructions leave, in file order
LabelsOf(insts, n, m) ==
    IF n > Len(insts) THEN m
    ELSE IF insts[n].type = U("label")
    THEN LabelsOf(insts, n + 1, ParseLabels(insts[n].args[1], m))
    ELSE LabelsOf(insts, n + 1, m)

\* _is_package_install: a manager word followed by its install verb
IsPackageInstall(words) ==
    \E i \in 1..(Len(words) - 1) :
        \/ /\ Lower(words[i]).s \in {"apt-get", "yum", "dnf", "pip", "npm", "gem"}
           /\ Lower(words[i + 1]).s = "install"
        \/ Lower(words[i]).s = "apk" /\ Lower(words[i + 1]).s = "add"

Failure(exc) ==
    [outcome |-> exc, base_image |-> <<>>, stages |-> <<>>,
     package_commands |-> <<>>, copy_commands |-> <<>>,
     all_instructions |-> <<>>, metadata |-> <<>>]

\* the part of analyze_content after the first FROM instruction, at index f
AnalysisFrom(insts, f) ==
    IF insts[f].args = <<>> THEN Failure("IndexError")
    ELSE [outcome |-> "ok",
          base_image |-> insts[f].args[1],
          stages |-> StagesOf(insts[f]),
          package_commands |->
              SelectSeq(insts, LAMBDA x : x.type = U("run") /\ IsPackageInstall(x.content)),
          copy_commands |-> SelectSeq(insts, LAMBDA x : x.type \in {U("copy"), U("add")}),
          all_instructions |-> insts,
          metadata |-> LabelsOf(insts, 1, <<>>)]

\* analyze_content, on the instructions _parse_instructions returned
AnalyzeInstructions(insts) ==
    IF insts = <<>> THEN Failure("InvalidDockerfile")
    ELSE IF \A k \in 1..Len(insts) : insts[k].type # U("from") THEN Failure("NoBaseImage")
    ELSE AnalysisFrom(insts, SetMin({k \in 1..Len(insts) : insts[k].type = U("from")}))

(* SpecParse: a Dockerfile is parsed and analyzed *)

Line(words) == [words |-> words, cont |-> FALSE, comment |-> FALSE]
Continued(words) == [words |-> words, cont |-> TRUE, comment |-> FALSE]
CommentLine == [words |-> <<N("#")>>, cont |-> FALSE, comment |-> TRUE]

FromLines ==
    { Line(<<U("from"), L("img")>>),                                \* FROM img
      Line(<<L("from"), L("img"), U("as"), L("b")>>),               \* from img AS b
      Line(<<U("from"), L("base"), M("as"), U("b2")>>),             \* FROM base As B2
      Line(<<U("from"), N("--platform=p"), L("img"), L("as"), L("c")>>),
      Line(<<U("from")>>),                                          \* FROM
      Continued(<<U("from"), L("img")>>),                           \* FROM img \
      Line(<<L("as"), L("d")>>) }                                   \* as d

OtherLines ==
    { Line(<<U("run"), L("x")>>),                                   \* RUN x
      Line(<<U("run"), L("apt-get"), L("install"), L("x")>>),
      Line(<<U("label"), L("version=1")>>),                         \* LABEL version=1
      Line(<<U("label"), L("k"), L("v")>>),                         \* LABEL k v
      Line(<<U("label")>>),                                         \* LABEL
      Line(<<U("copy"), L("a.py"), N("/app")>>),                    \* COPY a.py /app
      Line(<<U("shout"), L("x")>>),                                 \* SHOUT x
      Line(<<>>),                                                   \* an empty line
      CommentLine }

Contents == SeqsUpTo(FromLines \cup OtherLines, MaxLines)

NotParsed == [done |-> FALSE, v |-> <<>>]
Parsed(insts) == [done |-> TRUE, v |-> insts]

ParseIdle == content = <<>> /\ instructions = NotParsed /\ analysis = Failure("unset")

InitParse ==
    /\ content \in Contents
    /\ instructions = NotParsed
    /\ analysis = Failure("unset")

\* instructions = self._parse_instructions(content)
ParseContent ==
    /\ ~instructions.done
    /\ instructions' = Parsed(ParseInstructions(content))
    /\ UNCHANGED <<content, analysis, normVars, packageVars, matchVars, inspectVars, loadVars, benchVars, sbomVars>>

\* the rest of analyze_content: the analysis, or the exception that leaves it
AnalyzeContent ==
    /\ instructions.done
    /\ analysis.outcome = "unset"
    /\ analysis' = AnalyzeInstructions(instructions.v)
    /\ UNCHANGED <<content, instructions, normVars, packageVars, matchVars, inspectVars, loadVars, benchVars, sbomVars>>

NextParse == ParseContent \/ AnalyzeContent

IsFrom(inst) == inst.type = U("from")

\* the words of a FROM instruction after the keyword, flags left out
FromOperands(inst) == SelectSeq(Tail(inst.content), LAMBDA w : w.s # "--platform=p")

\* FROM image AS name, AS in any letter case
NamesStage(inst) ==
    IsFrom(inst) /\ Len(FromOperands(inst)) = 3 /\ Lower(FromOperands(inst)[2]) = L("as")

\* C7: analyze_content fails in exactly two cases: with the invalid-Dockerfile
\* error when the content yields no instruction, and with the no-base-image
\* error when no instruction is a FROM; for every other content it returns an
\* analysis and raises nothing else.
C7_TwoFailureModes ==
    analysis.outcome # "unset" =>
        /\ analysis.outcome \in {"ok", "InvalidDockerfile", "NoBaseImage"}
        /\ analysis.outcome = "InvalidDockerfile" <=> instructions.v = <<>>
        /\ analysis.outcome = "NoBaseImage" <=>
             (instructions.v # <<>> /\ \A k \in 1..Len(instructions.v) : ~IsFrom(instructions.v[k]))

\* the Dockerfile  FROM  leaves analyze_content with an IndexError
C7_BareFromIndexError ==
    /\ content = <<Line(<<U("from")>>)>>
    /\ instructions.v = <<DockerInstruction(U("from"), <<U("from")>>, 1, <<>>)>>
    /\ analysis.outcome = "IndexError"

\* C8: the stages list holds the stage name of every FROM image AS name
\* instruction of the file, wherever it occurs, and base_image is the image
\* of the first FROM instruction.
C8_StagesAndBaseImage ==
    analysis.outcome = "ok" =>
        /\ \A k \in 1..Len(instructions.v) :
              NamesStage(instructions.v[k]) =>
                  \E n \in 1..Len(analysis.stages) :
                      analysis.stages[n] = <<Lower(FromOperands(instructions.v[k])[3])>>
        /\ \E k \in 1..Len(instructions.v) :
              /\ IsFrom(instructions.v[k])
              /\ \A j \in 1..(k - 1) : ~IsFrom(instructions.v[j])
              /\ Len(FromOperands(instructions.v[k])) >= 1
              /\ analysis.base_image = <<FromOperands(instructions.v[k])[1]>>

\* from img AS b, then FROM base As B2: the second stage is not recorded
C8_SecondStageMissing ==
    /\ content = << Line(<<L("from"), L("img"), U("as"), L("b")>>),
                    Line(<<U("from"), L("base"), M("as"), U("b2")>>) >>
    /\ analysis.outcome = "ok"
    /\ analysis.stages = << <<L("b")>> >>
    /\ analysis.base_image = <<L("img")>>

RECURSIVE LogicalLinesFrom(_, _, _, _)

\* the logical lines of a Dockerfile: blank and comment lines are left out,
\* a line ending in a backslash is joined with the lines after it, and the
\* last run is a logical line also when the file ends in a backslash
LogicalLinesFrom(lines, n, current, acc) ==
    IF n > Len(lines) THEN (IF current = <<>> THEN acc ELSE Append(acc, current))
    ELSE IF lines[n].comment \/ lines[n].words = <<>>
    THEN LogicalLinesFrom(lines, n + 1, current, acc)
    ELSE IF lines[n].cont
    THEN LogicalLinesFrom(lines, n + 1, current \o lines[n].words, acc)
    ELSE LogicalLinesFrom(lines, n + 1, <<>>, Append(acc, current \o lines[n].words))

LogicalLines(lines) == LogicalLinesFrom(lines, 1, <<>>, <<>>)

\* the last line that is neither blank nor a comment ends in a backslash
EndsContinued(lines) ==
    \E n \in 1..Len(lines) :
        /\ lines[n].cont /\ ~lines[n].comment /\ lines[n].words # <<>>
        /\ \A k \in (n + 1)..Len(lines) : lines[k].comment \/ lines[k].words = <<>>

\* C17: the parsed instruction stream has exactly one instruction per
\* logical line of the Dockerfile, in source order, each of the kind that is
\* the upper-cased first token of its logical line; no logical line is
\* dropped, also not one that ends the file with a trailing backslash.
C17_OneInstructionPerLogicalLine ==
    instructions.done =>
        /\ Len(instructions.v) = Len(LogicalLines(content))
        /\ \A k \in 1..Len(instructions.v) :
              /\ instructions.v[k].content = LogicalLines(content)[k]
              /\ instructions.v[k].type = Upper(LogicalLines(content)[k][1])

\* RUN x followed by FROM img with a trailing backslash at the end of the
\* file: the FROM instruction is not in the stream
C17_TrailingContinuationDropped ==
    /\ content = <<Line(<<U("run"), L("x")>>), Continued(<<U("from"), L("img")>>)>>
    /\ instructions.done
    /\ Len(instructions.v) = 1
    /\ instructions.v[1].type = U("run")

-----------------------------------------------------------------------------
(* parse_package_command (dockersdk/utils.py).  A command is modelled token  *)
(* by token: a token is the text a up to its version separator sep and the  *)
(* version ver after it; a plain word has no separator and no version.      *)
(* Versions start with a digit and hold no '-' that two characters follow.  *)

MaxArgs == 3

Word(a) == [a |-> a, sep |-> "", ver |-> ""]
Versioned(a, sep, ver) == [a |-> a, sep |-> sep, ver |-> ver]

\* the values of the PackageManager enum, in the order of its definition
PackageManager == <<"apt", "apt-get", "pip", "pip3", "npm", "yarn", "dnf", "yum", "apk">>

\* PACKAGE_PATTERNS, in dict order: the manager, then the words the pattern
\* asks for one after the other before the packages
PACKAGE_PATTERNS ==
    << <<"apt", <<{"apt-get"}, {"install"}>> >>,
       <<"apt", <<{"apt"}, {"install"}>> >>,
       <<"pip", <<{"pip", "pip2", "pip3"}, {"install"}>> >>,
       <<"pip", <<{"python", "python2", "python3"}, {"-m"}, {"pip"}, {"install"}>> >>,
       <<"yum", <<{"yum"}, {"install"}>> >>,
       <<"dnf", <<{"dnf"}, {"install"}>> >>,
       <<"apk", <<{"apk"}, {"add"}>> >>,
       <<"npm", <<{"npm"}, {"install"}>> >>,
       <<"yarn", <<{"yarn"}, {"add"}>> >> >>

IsSeparator(t) == t \in {Word("&&"), Word("||"), Word(";"), Word("|")}

RECURSIVE SplitCommands(_, _, _)

\* the loop of split_shell_commands over the tokens, and its split on pipes
SplitCommands(tokens, current, acc) ==
    IF tokens = <<>> THEN (IF current = <<>> THEN acc ELSE Append(acc, current))
    ELSE IF IsSeparator(tokens[1])
    THEN SplitCommands(Tail(tokens), <<>>, IF current = <<>> THEN acc ELSE Append(acc, current))
    ELSE SplitCommands(Tail(tokens), Append(current, tokens[1]), acc)

\* the two re.sub calls of split_shell_commands:  /bin/sh -c  and  set -eux;
StripPrefix(tokens, first, second) ==
    IF Len(tokens) >= 2 /\ tokens[1] = Word(first) /\ tokens[2] = Word(second)
    THEN SubSeq(tokens, 3, Len(tokens)) ELSE tokens

\* split_shell_commands
SplitShellCommands(tokens) ==
    SplitCommands(StripPrefix(StripPrefix(tokens, "/bin/sh", "-c"), "set", "-eux;"), <<>>, <<>>)

\* the words of a pattern stand at position i, and a token follows them
PatternAt(tokens, i, words) ==
    /\ i + Len(words) <= Len(tokens)
    /\ \A k \in 1..Len(words) : tokens[i + k - 1].sep = "" /\ tokens[i + k - 1].a \in words[k]

\* the raw packages extract_package_patterns keeps: no flag, no sub-verb
KeepPackages(raw) ==
    SelectSeq(raw, LAMBDA t :
        /\ t.a \notin {"-y", "--no-install-recommends"}
        /\ t.a \notin {"install", "update", "remove", "purge"})

\* what one pattern adds to the results of extract_package_patterns: the
\* packages after the first place the pattern matches
PatternResult(tokens, pat, places) ==
    IF places = {} \/ KeepPackages(SubSeq(tokens, SetMin(places) + Len(pat[2]), Len(tokens))) = <<>>
    THEN <<>>
    ELSE << [manager |-> pat[1],
             command |-> IF pat[1] \in {"apk", "yarn"} THEN "add" ELSE "install",
             packages |-> KeepPackages(SubSeq(tokens, SetMin(places) + Len(pat[2]), Len(tokens)))] >>

RECURSIVE ExtractPackagePatterns(_, _)

\* extract_package_patterns, from pattern n on
ExtractPackagePatterns(tokens, n) ==
    IF n > Len(PACKAGE_PATTERNS) THEN <<>>
    ELSE PatternResult(tokens, PACKAGE_PATTERNS[n],
                       {i \in 1..Len(tokens) : PatternAt(tokens, i, PACKAGE_PATTERNS[n][2])})
         \o ExtractPackagePatterns(tokens, n + 1)

NameVersion(name, version) == [name |-> name, version |-> version]

\* the generic parsing parse_version_constraint falls back to
GenericConstraint(t) ==
    IF t.sep \in {"==", "=", "-"} THEN NameVersion(t.a, t.ver) ELSE NameVersion(t.a, "")

\* parse_version_constraint(package, package_manager)
ParseVersionConstraint(t, manager) ==
    IF manager \in {"npm", "yarn"} /\ t.sep = "@" THEN NameVersion(t.a, t.ver)
    ELSE IF manager \in {"apt", "apt-get", "apk"} /\ t.sep \in {"=", "=="}
    THEN NameVersion(t.a, t.ver)
    ELSE IF manager \in {"dnf", "yum"} /\ t.sep = "-" THEN NameVersion(t.a, t.ver)
    ELSE IF manager = "pip" /\ t.sep = "==" THEN NameVersion(t.a, t.ver)
    ELSE GenericConstraint(t)

RECURSIVE VersionConstraints(_, _, _)

PutConstraint(m, c) == IF c.version = "" THEN m ELSE Put(m, c.name, c.version)

\* the version_constraints dict built over the packages
VersionConstraints(packages, manager, m) ==
    IF packages = <<>> THEN m
    ELSE VersionConstraints(Tail(packages), manager,
                            PutConstraint(m, ParseVersionConstraint(packages[1], manager)))

PackageCommand(manager, cmd_type, packages) ==
    [manager |-> manager, command |-> cmd_type, packages |-> packages,
     version_constraints |-> VersionConstraints(packages, manager, <<>>)]

\* the command type the exact matching makes of the word after the manager
CommandTypeOf(manager, word) ==
    IF manager \in {"apk", "yarn"} /\ word = "add" THEN "add"
    ELSE IF word \in {"install", "i"} THEN "install"
    ELSE IF word \in {"update", "up"} THEN "update"
    ELSE IF word = "upgrade" THEN "upgrade"
    ELSE "unknown"

\* the exact command matching of parse_package_command, on the whole command
ExactMatch(tokens) ==
    IF Len(tokens) < 2 \/ tokens[1].sep # ""
       \/ \A k \in 1..Len(PackageManager) : PackageManager[k] # tokens[1].a
    THEN None
    ELSE IF tokens[2].sep # "" \/ CommandTypeOf(tokens[1].a, tokens[2].a) = "unknown" THEN None
    ELSE Some(PackageCommand(tokens[1].a, CommandTypeOf(tokens[1].a, tokens[2].a),
                             SubSeq(tokens, 3, Len(tokens))))

RECURSIVE FirstPatternMatch(_, _)

\* the loop of parse_package_command over the split commands
FirstPatternMatch(commands, n) ==
    IF n > Len(commands) THEN None
    ELSE IF ExtractPackagePatterns(commands[n], 1) = <<>> THEN FirstPatternMatch(commands, n + 1)
    ELSE Some(ExtractPackagePatterns(commands[n], 1)[1])

PatternOrExact(found, tokens) ==
    IF found = None THEN ExactMatch(tokens)
    ELSE Some(PackageCommand(found[1].manager, found[1].command, found[1].packages))

\* parse_package_command
ParsePackageCommand(tokens) ==
    PatternOrExact(FirstPatternMatch(SplitShellCommands(tokens), 1), tokens)

(* SpecPackage: a command is parsed *)

ManagerWords == {PackageManager[k] : k \in 1..Len(PackageManager)}
VerbWords == {"install", "add", "update"}

ArgTokens ==
    { Word("-y"), Word("--no-install-recommends"), Word("nginx"),
      Versioned("python3", "=", "3.9.5-2"), Versioned("requests", "==", "2.26.0"),
      Versioned("express", "@", "4.17.1"), Versioned("python3", "-", "3.9.5") }

\* manager verb args, alone or after  apt-get update &&
Commands ==
    { pre \o <<Word(m), Word(v)>> \o args :
        pre \in {<<>>, <<Word("apt-get"), Word("update"), Word("&&")>>},
        m \in ManagerWords, v \in VerbWords, args \in SeqsUpTo(ArgTokens, MaxArgs) }

NotReturned == [done |-> FALSE, value |-> None]

PackageIdle == command = <<>> /\ package_command = NotReturned

InitPackage ==
    /\ command \in Commands
    /\ package_command = NotReturned

\* package_command = parse_package_command(command)
ParseCommand ==
    /\ ~package_command.done
    /\ package_command' = [done |-> TRUE, value |-> ParsePackageCommand(command)]
    /\ UNCHANGED <<command, normVars, parseVars, matchVars, inspectVars, loadVars, benchVars, sbomVars>>

NextPackage == ParseCommand

\* the commands of claim C9: one of the managers it lists, with the install
\* verb (add for apk and yarn), then flags and package specifications
InstallsWith(tokens) ==
    /\ Len(tokens) >= 2
    /\ tokens[1] \in {Word(m) : m \in {"apt-get", "apt", "pip", "dnf", "apk", "npm", "yarn"}}
    /\ tokens[2] = Word(IF tokens[1].a \in {"apk", "yarn"} THEN "add" ELSE "install")
    /\ \A k \in 3..Len(tokens) : tokens[k] \in ArgTokens

PackageTokens(tokens) ==
    SelectSeq(SubSeq(tokens, 3, Len(tokens)),
              LAMBDA t : t.a \notin {"-y", "--no-install-recommends"})

\* C9: for a command that invokes one supported package manager's install or
\* add verb, parse_package_command returns the manager the command names, the
\* verb, the bare package names in command order without flags and version
\* specifiers, and a constraint for each versioned name; it returns nothing
\* when no package token remains.
C9_NamedManagerBareNames ==
    (package_command.done /\ InstallsWith(command)) =>
        IF PackageTokens(command) = <<>> THEN package_command.value = None
        ELSE /\ package_command.value # None
             /\ package_command.value[1].manager = command[1].a
             /\ package_command.value[1].command = command[2].a
             /\ package_command.value[1].packages =
                    [k \in 1..Len(PackageTokens(command)) |->
                        Word(ParseVersionConstraint(PackageTokens(command)[k], command[1].a).name)]
             /\ package_command.value[1].version_constraints =
                    VersionConstraints(PackageTokens(command), command[1].a, <<>>)

\* apt-get install -y python3=3.9.5-2 nginx  comes back with manager apt and
\* the version specifier still in packages
C9_AptGetReturnedAsApt ==
    /\ command = << Word("apt-get"), Word("install"), Word("-y"),
                    Versioned("python3", "=", "3.9.5-2"), Word("nginx") >>
    /\ package_command.value =
          Some([manager |-> "apt", command |-> "install",
                packages |-> <<Versioned("python3", "=", "3.9.5-2"), Word("nginx")>>,
                version_constraints |-> Put(<<>>, "python3", "3.9.5-2")])

-----------------------------------------------------------------------------
(* DockerfileMatchAnalyzer (dockersdk/match_analyzer.py) under the settings *)
(* of app/config.py.  A float is modelled by the exact fraction <<n, d>>    *)
(* in lowest terms; every number of the analyzer is at least 0.             *)

MaxInstructions == 2
MaxLayers == 2

RECURSIVE Gcd(_, _)
Gcd(a, b) == IF b = 0 THEN a ELSE Gcd(b, a % b)

Rat(n, d) == <<n \div Gcd(n, d), d \div Gcd(n, d)>>
Zero == <<0, 1>>
One == <<1, 1>>
Pct(n) == Rat(n, 100)
RAdd(a, b) == Rat(a[1] * b[2] + b[1] * a[2], a[2] * b[2])
RMul(a, b) == Rat(a[1] * b[1], a[2] * b[2])
RLe(a, b) == a[1] * b[2] <= b[1] * a[2]
RLt(a, b) == a[1] * b[2] < b[1] * a[2]
RMax(a, b) == IF RLe(a, b) THEN b ELSE a

RECURSIVE RSum(_)
RSum(xs) == IF xs = <<>> THEN Zero ELSE RAdd(xs[1], RSum(Tail(xs)))

\* sum(scores) / len(scores) if scores else 0.0
MeanOrZero(xs) == IF xs = <<>> THEN Zero ELSE RMul(RSum(xs), Rat(1, Len(xs)))

Range(xs) == {xs[k] : k \in 1..Len(xs)}

\* the defaults of MatchingSettings
DefaultSettings ==
    [score_weights |->
        [base_image |-> Pct(30), layer_match |-> Pct(40), metadata |-> Pct(15), context |-> Pct(15)],
     thresholds |->
        [likely_match |-> Pct(80), excellent_match |-> Pct(90), good_match |-> Pct(80),
         fair_match |-> Pct(60), poor_match |-> Pct(40)],
     layer_matching |->
        [exact_match_threshold |-> Pct(95), partial_match_threshold |-> Pct(70),
         sequence_weight |-> Pct(30), command_weight |-> Pct(70)],
     path_matching |->
        [exact_path_score |-> One, parent_path_score |-> Pct(80),
         filename_only_score |-> Pct(60), extension_match_score |-> Pct(30)],
     label_matching |->
        [maintainer |-> Pct(40), version |-> Pct(30), description |-> Pct(20), other |-> Pct(10)],
     context_matching |->
        [file_presence_weight |-> Pct(60), path_pattern_weight |-> Pct(40)],
     command_type_weights |->
        [run |-> One, copy |-> Pct(80), add |-> Pct(80), env |-> Pct(60), workdir |-> Pct(40),
         expose |-> Pct(40), volume |-> Pct(40), label |-> Pct(30), user |-> Pct(30),
         arg |-> Pct(20), other |-> Pct(10)]]

\* validate_weights and validate_thresholds: not 0 <= v <= 1 raises
Validated(v) == RLe(Zero, v) /\ RLe(v, One)

\* MatchingWeights.validate_weights and MatchingThresholds.validate_thresholds,
\* the validators the loader runs; the other groups have none
LoaderAccepts(s) ==
    /\ \A f \in DOMAIN s.score_weights : Validated(s.score_weights[f])
    /\ \A f \in DOMAIN s.thresholds : Validated(s.thresholds[f])

\* the registry, repository and tag an image reference splits into
RefOf ==
    [w \in {"img", "img:1", "img:2", "reg.io/img:1", "base"} |->
        IF w = "base" THEN [registry |-> "", name |-> "base", tag |-> ""]
        ELSE [registry |-> IF w = "reg.io/img:1" THEN "reg.io" ELSE "",
              name |-> "img",
              tag |-> IF w = "img" THEN "" ELSE IF w = "img:2" THEN "2" ELSE "1"]]

\* _normalize_image_ref: a registry with a dot is dropped, latest is the tag
\* of a reference without one
NormalizeImageRef(w) ==
    [name |-> RefOf[Lower(w).s].name,
     tag |-> IF RefOf[Lower(w).s].tag = "" THEN "latest" ELSE RefOf[Lower(w).s].tag]

\* _match_base_image; _are_image_aliases is always False
MatchBaseImage(dockerfile_base, image_base) ==
    IF dockerfile_base = <<>> \/ image_base = None THEN Zero
    ELSE IF NormalizeImageRef(dockerfile_base[1]) = NormalizeImageRef(image_base[1]) THEN One
    ELSE IF NormalizeImageRef(dockerfile_base[1]).name = NormalizeImageRef(image_base[1]).name
    THEN Pct(80)
    ELSE Zero

\* _normalize_command: a comment is cut off, the rest is upper-cased
NormalizeCommand(words) ==
    [k \in 1..(SetMin({i \in 1..Len(words) : words[i] = N("#")} \cup {Len(words) + 1}) - 1) |->
        Upper(words[k])]

\* getattr(settings.matching.command_type_weights, cmd_type, OTHER)
TypeWeight(s, norm) ==
    IF norm # <<>> /\ norm[1].c = "upper" /\ norm[1].s \in DOMAIN s.command_type_weights
    THEN s.command_type_weights[norm[1].s]
    ELSE s.command_type_weights.other

Jaccard(tokens1, tokens2) ==
    IF tokens1 = {} \/ tokens2 = {} THEN Zero
    ELSE Rat(Cardinality(tokens1 \cap tokens2), Cardinality(tokens1 \cup tokens2))

\* similarity * type_weight, on the normalized commands
WeightedSimilarity(s, norm1, norm2) ==
    IF norm1 = <<>> \/ norm2 = <<>> THEN Zero
    ELSE RMul(Jaccard(Range(norm1), Range(norm2)), TypeWeight(s, norm1))

\* _compute_command_similarity
ComputeCommandSimilarity(s, c1, c2) ==
    WeightedSimilarity(s, NormalizeCommand(c1), NormalizeCommand(c2))

LayerMatch(instruction, layer, score, type) ==
    [dockerfile_instruction |-> instruction, layer_info |-> layer,
     match_score |-> score, match_type |-> type]

RECURSIVE BestMatch(_, _, _, _, _, _)

\* one turn of the inner loop of _match_layers_sequential: layer k scored
\* score, and replaces the best match when that is at least best_score
BestMatchWith(s, instruction, layers, k, best_score, best, score) ==
    IF RLe(best_score, score)
    THEN BestMatch(s, instruction, layers, k + 1, score,
                   LayerMatch(instruction, Some(layers[k]), score,
                              IF RLe(s.layer_matching.exact_match_threshold, score)
                              THEN "exact" ELSE "partial"))
    ELSE BestMatch(s, instruction, layers, k + 1, best_score, best)

\* the inner loop of _match_layers_sequential from layer k on
BestMatch(s, instruction, layers, k, best_score, best) ==
    IF k > Len(layers) THEN best
    ELSE BestMatchWith(s, instruction, layers, k, best_score, best,
                       ComputeCommandSimilarity(s, instruction.content, layers[k]))

\* _match_layers_sequential
MatchLayersSequential(s, insts, layers) ==
    [n \in 1..Len(insts) |->
        BestMatch(s, insts[n], layers, 1, s.layer_matching.partial_match_threshold,
                  LayerMatch(insts[n], None, Zero, "none"))]

\* _compute_layer_score
ComputeLayerScore(s, matches) ==
    IF matches = <<>> THEN Zero
    ELSE RMul(RSum([n \in 1..Len(matches) |->
                      RAdd(RMul(matches[n].match_score, s.layer_matching.command_weight),
                           RMul(Rat(Len(matches) - (n - 1), Len(matches)),
                                s.layer_matching.sequence_weight))]),
              Rat(1, Len(matches)))

\* _match_labels: a Dockerfile label the image has too is looked up with
\* settings.matching.label_matching.get, which LabelMatching does not have;
\* without a shared label the score list is empty
MatchLabels(dockerfile_labels, image_labels) ==
    IF DOMAIN dockerfile_labels \cap DOMAIN image_labels # {}
    THEN [raised |-> TRUE, score |-> Zero]
    ELSE [raised |-> FALSE, score |-> Zero]

\* the port re.findall finds in a word of an EXPOSE instruction, and the
\* port with /tcp added when it names no protocol
PortIn ==
    [w \in {N("80"), L("443/tcp")} |-> IF w = N("80") THEN L("80/tcp") ELSE w]

\* str(Path(v)) of the words that stand for volumes
PathStr ==
    [w \in {U("volume"), L("/data"), L("/data/")} |-> IF w = L("/data/") THEN L("/data") ELSE w]

RECURSIVE WordsOf(_, _)

\* the words of the instructions of one type, in file order
WordsOf(insts, type) ==
    IF insts = <<>> THEN <<>>
    ELSE (IF insts[1].type = type THEN insts[1].content ELSE <<>>) \o WordsOf(Tail(insts), type)

\* the ports of the EXPOSE instructions, as found
FoundPorts(insts) == SelectSeq(WordsOf(insts, U("expose")), LAMBDA w : w \in DOMAIN PortIn)

\* len(matches) / max(len(dockerfile side), len(image side)); an empty
\* Dockerfile side scores 1.0 against an empty image side and 0.0 otherwise
Overlap(dockerfile_side, image_side) ==
    IF dockerfile_side = {} THEN (IF image_side = {} THEN One ELSE Zero)
    ELSE Rat(Cardinality(dockerfile_side \cap image_side),
             IF Cardinality(dockerfile_side) >= Cardinality(image_side)
             THEN Cardinality(dockerfile_side) ELSE Cardinality(image_side))

\* _match_ports
MatchPorts(insts, image_ports) ==
    Overlap({PortIn[w] : w \in Range(FoundPorts(insts))}, image_ports)

\* _match_volumes: content starts with the keyword, never with '[', and the
\* regular expression takes every word of it, the keyword too
MatchVolumes(insts, image_volumes) ==
    Overlap({PathStr[w] : w \in Range(WordsOf(insts, U("volume")))},
            {PathStr[w] : w \in image_volumes})

\* the scores list of _match_metadata; label is the label score when
\* _match_labels was called
MetadataScores(s, label, insts, config) ==
    (IF label = None THEN <<>> ELSE <<RMul(label[1], s.label_matching.maintainer)>>)
    \o (IF config.exposed_ports = {} THEN <<>>
        ELSE <<RMul(MatchPorts(insts, config.exposed_ports), Pct(30))>>)
    \o (IF config.volumes = {} THEN <<>>
        ELSE <<RMul(MatchVolumes(insts, config.volumes), Pct(30))>>)

\* the dict _match_metadata stores in self._metadata; the key an ENV
\* instruction is looked up with starts with the keyword, and no variable of
\* the images modelled is named so
StoredMetadata(insts, config) ==
    [environment_matches |-> <<>>,
     port_matches |-> IF config.exposed_ports = {} THEN <<>> ELSE FoundPorts(insts),
     volume_matches |-> IF config.volumes = {} THEN <<>> ELSE WordsOf(insts, U("volume"))]

\* _match_metadata, labels being what _match_labels did when it was called
MetadataWith(s, labels, insts, config) ==
    IF labels # None /\ labels[1].raised
    THEN [raised |-> TRUE, score |-> Zero, stored |-> <<>>]
    ELSE [raised |-> FALSE,
          score |-> MeanOrZero(MetadataScores(s,
                        IF labels = None THEN None ELSE Some(labels[1].score), insts, config)),
          stored |-> StoredMetadata(insts, config)]

\* _match_metadata
MatchMetadata(s, df, img) ==
    MetadataWith(s,
        IF DOMAIN df.metadata # {} /\ DOMAIN img.config.labels # {}
        THEN Some(MatchLabels(df.metadata, img.config.labels)) ELSE None,
        df.all_instructions, img.config)

\* parent, name and suffix of pathlib.Path for the words that stand for paths
PathOf ==
    [w \in {L("a.py"), U("a.py"), L("b.py"), L("src/a.py"), L("a.txt")} |->
        [parent |-> IF w = L("src/a.py") THEN L("src") ELSE N("."),
         name |-> IF w = L("src/a.py") THEN L("a.py") ELSE w,
         suffix |-> IF w = L("a.txt") THEN L(".txt") ELSE IF w.c = "upper" THEN U(".py") ELSE L(".py")]]

\* _extract_paths
ExtractPaths(words) == IF Len(words) < 3 THEN <<>> ELSE SubSeq(words, 2, Len(words) - 1)

\* what one pair of paths offers to best_path_score
PathPairScore(s, p1, p2) ==
    IF p1 = p2 THEN s.path_matching.exact_path_score
    ELSE IF PathOf[p1].parent = PathOf[p2].parent THEN s.path_matching.parent_path_score
    ELSE IF PathOf[p1].name = PathOf[p2].name THEN s.path_matching.filename_only_score
    ELSE IF PathOf[p1].suffix = PathOf[p2].suffix THEN s.path_matching.extension_match_score
    ELSE Zero

RECURSIVE BestOver(_, _)

\* best = max(best, x) over a list of scores
BestOver(xs, best) == IF xs = <<>> THEN best ELSE BestOver(Tail(xs), RMax(best, xs[1]))

PathsSimilarity(s, paths1, paths2) ==
    IF paths1 = <<>> \/ paths2 = <<>> THEN Zero
    ELSE MeanOrZero([i \in 1..Len(paths1) |->
            BestOver([j \in 1..Len(paths2) |-> PathPairScore(s, paths1[i], paths2[j])], Zero)])

\* _compute_path_similarity
ComputePathSimilarity(s, c1, c2) == PathsSimilarity(s, ExtractPaths(c1), ExtractPaths(c2))

\* _match_build_context
MatchBuildContext(s, copy_commands, matches) ==
    IF copy_commands = <<>> THEN One
    ELSE RMul(RSum([i \in 1..Len(copy_commands) |->
                BestOver([n \in 1..Len(matches) |->
                    IF matches[n].dockerfile_instruction = copy_commands[i]
                    THEN ComputePathSimilarity(s, copy_commands[i].content,
                            IF matches[n].layer_info = None THEN <<>>
                            ELSE matches[n].layer_info[1])
                    ELSE Zero], Zero)]),
              Rat(1, Len(copy_commands)))

\* DockerfileMatch.match_quality
MatchQuality(overall) ==
    IF RLe(Pct(90), overall) THEN "Excellent"
    ELSE IF RLe(Pct(80), overall) THEN "Good"
    ELSE IF RLe(Pct(60), overall) THEN "Fair"
    ELSE IF RLe(Pct(40), overall) THEN "Poor"
    ELSE "Very Poor"

\* DockerfileMatch.get_mismatch_reasons
GetMismatchReasons(m) ==
    (IF RLt(m.base_image_score, Pct(80)) THEN <<"Base image mismatch">> ELSE <<>>)
    \o (IF RLt(m.layer_score, Pct(70)) THEN <<"Layer command mismatches">> ELSE <<>>)
    \o (IF RLt(m.metadata_score, Pct(70)) THEN <<"Metadata differences">> ELSE <<>>)
    \o (IF RLt(m.context_score, Pct(70)) THEN <<"Build context differences">> ELSE <<>>)

DockerfileMatch(outcome, w, base, layer, meta, ctx, matches) ==
    [outcome |-> outcome,
     overall_score |-> RAdd(RAdd(RMul(base, w.base_image), RMul(layer, w.layer_match)),
                            RAdd(RMul(meta, w.metadata), RMul(ctx, w.context))),
     base_image_score |-> base, layer_score |-> layer,
     metadata_score |-> meta, context_score |-> ctx,
     matched_layers |-> matches]

NoReport == DockerfileMatch("unset", DefaultSettings.score_weights, Zero, Zero, Zero, Zero, <<>>)

\* analyze_match once the layers are matched and _match_metadata is through:
\* the report, or the ValueError every exception is turned into
AnalyzeWith(s, df, img, matches, meta) ==
    IF meta.raised
    THEN DockerfileMatch("ValueError", s.score_weights, Zero, Zero, Zero, Zero, <<>>)
    ELSE DockerfileMatch("ok", s.score_weights,
            MatchBaseImage(df.base_image, img.base_image),
            ComputeLayerScore(s, matches), meta.score,
            MatchBuildContext(s, df.copy_commands, matches), matches)

(* SpecMatch: one Dockerfile analysis is matched against one image *)

\* every score weight at the top of the range the validator lets through
AllOnesSettings ==
    [DefaultSettings EXCEPT !.score_weights =
        [base_image |-> One, layer_match |-> One, metadata |-> One, context |-> One]]

\* a score weight the validator refuses
RefusedSettings == [DefaultSettings EXCEPT !.score_weights.metadata = Rat(3, 2)]

\* a lower bar for a partial layer match; LayerMatching has no validator
LenientSettings == [DefaultSettings EXCEPT !.layer_matching.partial_match_threshold = Pct(30)]

SettingsInputs ==
    {s \in {DefaultSettings, AllOnesSettings, RefusedSettings, LenientSettings} : LoaderAccepts(s)}

CmdApp == <<U("cmd"), L("[\"app\"]")>>                               \* CMD ["app"]

MatchFromLines ==
    { Line(<<U("from"), L("img:1")>>),                              \* FROM img:1
      Line(<<U("from"), L("reg.io/img:1")>>) }                      \* FROM reg.io/img:1

MatchOtherLines ==
    { Line(CmdApp),
      Line(<<U("run"), L("x")>>),                                   \* RUN x
      Line(<<U("copy"), L("a.py"), L("/app")>>),                    \* COPY a.py /app
      Line(<<U("label"), L("version=1")>>),                         \* LABEL version=1
      Line(<<U("expose"), N("80")>>),                               \* EXPOSE 80
      Line(<<U("volume"), L("/data")>>) }                           \* VOLUME /data

\* the analyses analyze_content returns for a FROM line and up to
\* MaxInstructions more lines
Dockerfiles ==
    {AnalyzeInstructions(ParseInstructions(<<f>> \o rest)) :
        f \in MatchFromLines, rest \in SeqsUpTo(MatchOtherLines, MaxInstructions)}

\* Layer.created_by of the layers of an image
LayerTexts ==
    { CmdApp,
      <<L("/bin/sh"), L("-c"), N("#"), U("cmd"), L("[\"app\"]")>>,   \* /bin/sh -c #(nop) CMD ["app"]
      <<U("run"), L("x")>>,
      <<U("copy"), L("a.py"), L("/app")>>,
      <<L("copy"), U("a.py"), L("/app")>>,                          \* copy A.PY /app
      <<U("copy"), L("src/a.py"), L("/app")>> }

ImageConfig(cmd, exposed_ports, volumes, labels) ==
    [env |-> <<>>, cmd |-> cmd, exposed_ports |-> exposed_ports,
     volumes |-> volumes, labels |-> labels]

PlainConfig == ImageConfig(<<L("app")>>, {}, {}, <<>>)

DeclaringConfigs ==
    { ImageConfig(<<L("app")>>, {}, {}, Put(<<>>, <<L("version")>>, <<N("1")>>)),
      ImageConfig(<<L("app")>>, {}, {}, Put(<<>>, <<L("k")>>, <<L("v")>>)),
      ImageConfig(<<>>, {L("80/tcp")}, {}, <<>>),
      ImageConfig(<<>>, {L("80/tcp"), L("443/tcp")}, {L("/data/")}, <<>>) }

ImageInfo(base_image, layers, config) ==
    [base_image |-> base_image, layers |-> layers, config |-> config]

\* images that declare nothing, with every base image and up to MaxLayers
\* layers, and images of base img:1 that declare labels, ports or volumes
Images ==
    {ImageInfo(b, ls, PlainConfig) :
        b \in {None, Some(L("img:1")), Some(L("img:2"))},
        ls \in SeqsUpTo(LayerTexts, MaxLayers)}
    \cup {ImageInfo(Some(L("img:1")), ls, c) :
            ls \in SeqsUpTo(LayerTexts, MaxLayers - 1), c \in DeclaringConfigs}

MatchIdle ==
    /\ settings = <<>> /\ dockerfile = <<>> /\ image = <<>>
    /\ self_metadata = <<>> /\ report = NoReport /\ match_calls = <<>>

InitMatch ==
    /\ settings \in SettingsInputs
    /\ dockerfile \in Dockerfiles
    /\ image \in Images
    /\ self_metadata = <<>>
    /\ report = NoReport
    /\ match_calls = <<>>

\* analyze_match(dockerfile, image) with what _match_layers_sequential and
\* _match_metadata came to; self._metadata is left alone when the latter raises
AnalyzeMatchWith(matches, meta) ==
    /\ report' = AnalyzeWith(settings, dockerfile, image, matches, meta)
    /\ self_metadata' = IF meta.raised THEN self_metadata ELSE meta.stored

AnalyzeMatch ==
    /\ report.outcome = "unset"
    /\ AnalyzeMatchWith(
          MatchLayersSequential(settings, dockerfile.all_instructions, image.layers),
          MatchMetadata(settings, dockerfile, image))
    /\ UNCHANGED <<settings, dockerfile, image, match_calls, normVars, parseVars, packageVars, inspectVars, loadVars, benchVars, sbomVars>>

NextMatch == AnalyzeMatch

InUnit(x) == RLe(Zero, x) /\ RLe(x, One)

\* C1: for every parsed Dockerfile, every image and every matching
\* configuration the settings loader accepts, analyze_match returns
\* overall_score, base_image_score, layer_score, metadata_score and
\* context_score each inside [0,1].
C1_ScoresInUnitInterval ==
    report.outcome # "unset" =>
        /\ report.outcome = "ok"
        /\ InUnit(report.overall_score)
        /\ InUnit(report.base_image_score)
        /\ InUnit(report.layer_score)
        /\ InUnit(report.metadata_score)
        /\ InUnit(report.context_score)

\* every score weight 1.0 is accepted by the loader, and FROM img:1 with
\* RUN x against an image of base img:1 with the layer RUN x is reported with
\* an overall score above 1
C1_OverallAboveOne ==
    /\ settings = AllOnesSettings
    /\ dockerfile.base_image = <<L("img:1")>>
    /\ Len(dockerfile.all_instructions) = 2
    /\ dockerfile.all_instructions[2].content = <<U("run"), L("x")>>
    /\ image = ImageInfo(Some(L("img:1")), << <<U("run"), L("x")>> >>, PlainConfig)
    /\ report.outcome = "ok"
    /\ RLt(One, report.overall_score)

\* a Dockerfile of a FROM and an exec-form CMD, and an image with the same
\* base image and command that declares no labels, ports, volumes or
\* environment
IdenticalPair ==
    /\ Len(dockerfile.all_instructions) = 2
    /\ dockerfile.all_instructions[2].content = CmdApp
    /\ image.base_image = Some(dockerfile.base_image[1])
    /\ image.config = PlainConfig

\* C2: an identical pair (a Dockerfile of only a FROM and an exec-form CMD,
\* an image with the same base image and Config.Cmd and no labels, ports,
\* volumes or environment) is reported with overall >= 0.9, quality
\* Excellent and no mismatch reasons.
C2_IdenticalPairExcellent ==
    (settings = DefaultSettings /\ IdenticalPair /\ report.outcome # "unset") =>
        /\ report.outcome = "ok"
        /\ RLe(Pct(90), report.overall_score)
        /\ MatchQuality(report.overall_score) = "Excellent"
        /\ GetMismatchReasons(report) = <<>>

\* the identical pair whose image has the one layer CMD ["app"] is reported
\* with overall 0.54, quality Poor and two mismatch reasons
C2_IdenticalPairPoor ==
    /\ settings = DefaultSettings
    /\ IdenticalPair
    /\ image.layers = <<CmdApp>>
    /\ report.outcome = "ok"
    /\ report.overall_score = Rat(27, 50)
    /\ MatchQuality(report.overall_score) = "Poor"
    /\ GetMismatchReasons(report) = <<"Layer command mismatches", "Metadata differences">>

\* C16: facet scorers never raise: for every parsed Dockerfile and image,
\* also when a LABEL key of the Dockerfile is a label of the image, every
\* facet scorer returns a score and analyze_match returns a complete
\* DockerfileMatch rather than failing.
C16_AnalyzeMatchNeverFails ==
    report.outcome # "unset" => report.outcome = "ok"

\* LABEL version=1 against an image labelled version=1: analyze_match fails
\* with ValueError and self._metadata is not written
C16_SharedLabelRaises ==
    /\ <<L("version")>> \in DOMAIN dockerfile.metadata
    /\ <<L("version")>> \in DOMAIN image.config.labels
    /\ report.outcome = "ValueError"
    /\ self_metadata = <<>>

\* no two layers of the image have the same created_by, so that a layer is
\* known by its text
DistinctLayers == \A j, k \in 1..Len(image.layers) : j # k => image.layers[j] # image.layers[k]

\* C18: in matched_layers each image history entry is paired with at most
\* one Dockerfile instruction: an entry committed to an instruction is never
\* paired with a later instruction.
C18_LayerPairedAtMostOnce ==
    (report.outcome = "ok" /\ DistinctLayers) =>
        \A n, m \in 1..Len(report.matched_layers) :
            (n # m /\ report.matched_layers[n].layer_info # None)
                => report.matched_layers[n].layer_info # report.matched_layers[m].layer_info

\* FROM img:1, RUN x, RUN x against an image whose only layer is RUN x: both
\* RUN instructions are paired with that layer
C18_OneLayerPairedTwice ==
    /\ Len(dockerfile.all_instructions) = 3
    /\ dockerfile.all_instructions[2].content = <<U("run"), L("x")>>
    /\ dockerfile.all_instructions[3].content = <<U("run"), L("x")>>
    /\ image.layers = << <<U("run"), L("x")>> >>
    /\ report.outcome = "ok"
    /\ report.matched_layers[2].layer_info = Some(<<U("run"), L("x")>>)
    /\ report.matched_layers[3].layer_info = Some(<<U("run"), L("x")>>)


\* the RUN, COPY and ADD instructions of the Dockerfile, in its order
LayerCreatingInstructions ==
    SelectSeq(dockerfile.all_instructions,
              LAMBDA inst : inst.type \in {U("run"), U("copy"), U("add")})

\* the instructions of matched_layers, in the order of matched_layers
MatchedInstructions ==
    [n \in 1..Len(report.matched_layers) |-> report.matched_layers[n].dockerfile_instruction]

\* C21: matched_layers of analyze_match holds exactly one LayerMatch for each
\* RUN, COPY or ADD instruction of the Dockerfile and none for an instruction
\* of another kind, in the order of the instructions in the Dockerfile.
C21_OneMatchPerLayerCreatingInstruction ==
    report.outcome = "ok" => MatchedInstructions = LayerCreatingInstructions

\* FROM img:1, RUN x: matched_layers has two entries, the first for FROM
C21_FromHasLayerMatch ==
    /\ Len(dockerfile.all_instructions) = 2
    /\ dockerfile.all_instructions[1].type = U("from")
    /\ dockerfile.all_instructions[2].content = <<U("run"), L("x")>>
    /\ report.outcome = "ok"
    /\ MatchedInstructions = dockerfile.all_instructions
    /\ report.matched_layers[1].match_type = "none"


(* SpecClassify: analyze_match under the default settings, against an image
   of one layer that shares only some of its words with a RUN instruction *)

PartlyAlikeLayers ==
    { <<U("run"), L("x"), L("y")>>,                                 \* RUN x y
      <<U("run"), L("y")>>,                                         \* RUN y
      <<U("run"), L("x")>> }                                        \* RUN x

InitClassify ==
    /\ settings = DefaultSettings
    /\ dockerfile \in Dockerfiles
    /\ image \in {ImageInfo(Some(L("img:1")), <<text>>, PlainConfig) : text \in PartlyAlikeLayers}
    /\ self_metadata = <<>>
    /\ report = NoReport
    /\ match_calls = <<>>

\* the highest similarity of an instruction with a layer of the image, 0
\* when the image has no layer
BestSimilarity(inst) ==
    CHOOSE b \in {Zero} \cup {ComputeCommandSimilarity(settings, inst.content, image.layers[k]) :
                                 k \in 1..Len(image.layers)} :
        \A k \in 1..Len(image.layers) :
            RLe(ComputeCommandSimilarity(settings, inst.content, image.layers[k]), b)

\* C22: under the default configuration a LayerMatch is exact when its score
\* is at least 0.95, partial when the score is at least 0.5 and below 0.95,
\* and none, with no layer and score 0, when its best score is below 0.5.
C22_ClassifiedByDefaultThresholds ==
    (report.outcome = "ok" /\ settings = DefaultSettings) =>
        \A n \in 1..Len(report.matched_layers) :
            IF RLe(Pct(95), BestSimilarity(report.matched_layers[n].dockerfile_instruction))
            THEN report.matched_layers[n].match_type = "exact"
            ELSE IF RLe(Pct(50), BestSimilarity(report.matched_layers[n].dockerfile_instruction))
            THEN /\ report.matched_layers[n].match_type = "partial"
                 /\ report.matched_layers[n].match_score =
                        BestSimilarity(report.matched_layers[n].dockerfile_instruction)
            ELSE /\ report.matched_layers[n].match_type = "none"
                 /\ report.matched_layers[n].layer_info = None
                 /\ report.matched_layers[n].match_score = Zero

\* RUN x against the layer RUN x y has similarity 2/3 and is classified none
C22_TwoThirdsIsNone ==
    /\ settings = DefaultSettings
    /\ Len(dockerfile.all_instructions) = 2
    /\ dockerfile.all_instructions[2].content = <<U("run"), L("x")>>
    /\ image.layers = << <<U("run"), L("x"), L("y")>> >>
    /\ report.outcome = "ok"
    /\ BestSimilarity(dockerfile.all_instructions[2]) = Rat(2, 3)
    /\ report.matched_layers[2] = LayerMatch(dockerfile.all_instructions[2], None, Zero, "none")


(* SpecThreads: two threads call analyze_match on one analyzer.  Between the
   write of self._metadata at the end of _match_metadata and its read where
   the DockerfileMatch is built, the other thread may run. *)

MatchThreads == 2

\* a call of analyze_match: its arguments, where it is, and the metadata of
\* the DockerfileMatch it returned
MatchCall(df, img) == [dockerfile |-> df, image |-> img, pc |-> "start", metadata |-> <<>>]

ThreadDockerfiles ==
    {AnalyzeInstructions(ParseInstructions(<<Line(<<U("from"), L("img:1")>>), line>>)) :
        line \in {Line(CmdApp), Line(<<U("expose"), N("80")>>),
                  Line(<<U("volume"), L("/data")>>), Line(<<U("label"), L("version=1")>>)}}

ThreadImages ==
    {ImageInfo(Some(L("img:1")), <<>>, config) :
        config \in {PlainConfig,
                    ImageConfig(<<L("app")>>, {}, {}, Put(<<>>, <<L("version")>>, <<N("1")>>)),
                    ImageConfig(<<>>, {L("80/tcp")}, {}, <<>>),
                    ImageConfig(<<>>, {L("80/tcp"), L("443/tcp")}, {L("/data/")}, <<>>)}}

InitThreads ==
    /\ settings = DefaultSettings
    /\ dockerfile = <<>>
    /\ image = <<>>
    /\ self_metadata = <<>>
    /\ report = NoReport
    /\ match_calls \in [1..MatchThreads -> {MatchCall(df, img) : df \in ThreadDockerfiles, img \in ThreadImages}]

\* analyze_match of thread t up to the end of _match_metadata, meta being
\* what _match_metadata came to: self._metadata is written, or the exception
\* of _match_labels becomes the ValueError of analyze_match
RunMatchMetadataWith(t, meta) ==
    /\ match_calls' = [match_calls EXCEPT ![t].pc = IF meta.raised THEN "ValueError" ELSE "scored"]
    /\ self_metadata' = IF meta.raised THEN self_metadata ELSE meta.stored

RunMatchMetadata(t) ==
    /\ match_calls[t].pc = "start"
    /\ RunMatchMetadataWith(t, MatchMetadata(settings, match_calls[t].dockerfile, match_calls[t].image))
    /\ UNCHANGED <<settings, dockerfile, image, report, normVars, parseVars, packageVars, inspectVars, loadVars, benchVars, sbomVars>>

\* the rest of analyze_match of thread t: the DockerfileMatch is built with
\* **self._metadata as it is now
BuildDockerfileMatch(t) ==
    /\ match_calls[t].pc = "scored"
    /\ match_calls' = [match_calls EXCEPT ![t].pc = "done", ![t].metadata = self_metadata]
    /\ UNCHANGED <<settings, dockerfile, image, self_metadata, report, normVars, parseVars, packageVars, inspectVars, loadVars, benchVars, sbomVars>>

NextThreads ==
    \/ \E t \in 1..MatchThreads : RunMatchMetadata(t)
    \/ \E t \in 1..MatchThreads : BuildDockerfileMatch(t)

\* C26: when two analyze_match calls run concurrently on one analyzer, each
\* returned DockerfileMatch carries the environment, port and volume match
\* metadata computed from its own Dockerfile and image.
C26_MetadataIsPerCall ==
    \A t \in DOMAIN match_calls :
        match_calls[t].pc = "done" =>
            match_calls[t].metadata =
                StoredMetadata(match_calls[t].dockerfile.all_instructions, match_calls[t].image.config)

\* thread 1 matched EXPOSE 80 against an image exposing 80/tcp, thread 2
\* matched CMD against an image that declares nothing and wrote
\* self._metadata before thread 1 read it: the DockerfileMatch of thread 1
\* has no port match
C26_OtherCallsMetadataReturned ==
    /\ match_calls[1].dockerfile.all_instructions[2].type = U("expose")
    /\ match_calls[1].image.config.exposed_ports = {L("80/tcp")}
    /\ match_calls[2].dockerfile.all_instructions[2].type = U("cmd")
    /\ match_calls[2].image.config = PlainConfig
    /\ match_calls[1].pc = "done"
    /\ match_calls[1].metadata.port_matches = <<>>
    /\ StoredMetadata(match_calls[1].dockerfile.all_instructions, match_calls[1].image.config).port_matches # <<>>

-----------------------------------------------------------------------------
(* DockerImageInspector.inspect_image (sbom_generator/container_analyzer.py). *)
(* Calls run as coroutines of one event loop: a call runs without            *)
(* interruption from its start to the await of run_in_executor, and from      *)
(* there to its return; _inspect runs on a pool thread, where its calls to    *)
(* the Docker Engine interleave with the other calls and with changes of the  *)
(* image.                                                                     *)

MaxCalls == 2
MaxVersion == 1

\* the reference strings of the model; both name the same image
ImageRefs == {"img", "img:latest"}
AliasOf(ref) ==
    IF ref = "img" THEN "img:latest" ELSE IF ref = "img:latest" THEN "img" ELSE ref

\* a reference to another image, and image.id of the image a reference names
AllRefs == ImageRefs \cup {"other"}
ImageIdOf(image_ref) == IF image_ref \in ImageRefs THEN "sha256:img" ELSE "sha256:other"

\* a key like the dict would have if it were keyed by the image named
CacheKeyByImage(image_ref) == "img"

\* the key of self.image_cache: the string the caller passed
CacheKey(image_ref) == image_ref

\* what _inspect returns: the inspection and the history as the engine had
\* them when each was read
InspectionResult(id, inspection, history) == [Id |-> id, Inspection |-> inspection, History |-> history]

\* one call of inspect_image; late and alias_late record whether a call with
\* the same string, or with the other string, had returned before it began;
\* cancelled tells that the call was cancelled at its await
Call(ref, pc, result, late, alias_late) ==
    [ref |-> ref, pc |-> pc, engine_calls |-> 0, inspection |-> 0, result |-> result,
     late |-> late, alias_late |-> alias_late, cancelled |-> FALSE]

InspectIdle == image_cache = <<>> /\ calls = <<>> /\ engine = <<>> /\ returned = {}

\* __init__: the cache is empty; the image is in the local store or not
InitInspect ==
    /\ image_cache = <<>>
    /\ calls = <<>>
    /\ engine \in [local : {{}, {"sha256:img"}}, version : {0}]
    /\ returned = {}

\* inspect_image(image_ref) up to its first await: a cached result is
\* returned at once, otherwise _inspect is handed to the executor
BeginInspect(image_ref) ==
    /\ Len(calls) < MaxCalls
    /\ IF CacheKey(image_ref) \in DOMAIN image_cache
       THEN /\ calls' = Append(calls, Call(image_ref, "done", Some(image_cache[CacheKey(image_ref)]),
                                           image_ref \in returned, AliasOf(image_ref) \in returned))
            /\ returned' = returned \cup {image_ref}
       ELSE /\ calls' = Append(calls, Call(image_ref, "get", None,
                                           image_ref \in returned, AliasOf(image_ref) \in returned))
            /\ returned' = returned
    /\ UNCHANGED <<image_cache, engine, normVars, parseVars, packageVars, matchVars, loadVars, benchVars, sbomVars>>

\* self.client.images.get(image_ref); ImageNotFound leads to the pull
GetImage(i) ==
    /\ calls[i].pc = "get"
    /\ calls' = [calls EXCEPT ![i].pc = IF ImageIdOf(calls[i].ref) \in engine.local THEN "inspect" ELSE "pull",
                              ![i].engine_calls = @ + 1]
    /\ UNCHANGED <<image_cache, engine, returned, normVars, parseVars, packageVars, matchVars, loadVars, benchVars, sbomVars>>

\* self.client.images.pull(image_ref)
PullImage(i) ==
    /\ calls[i].pc = "pull"
    /\ engine' = [engine EXCEPT !.local = @ \cup {ImageIdOf(calls[i].ref)}]
    /\ calls' = [calls EXCEPT ![i].pc = "inspect", ![i].engine_calls = @ + 1]
    /\ UNCHANGED <<image_cache, returned, normVars, parseVars, packageVars, matchVars, loadVars, benchVars, sbomVars>>

\* self.client.api.inspect_image(image.id)
InspectApi(i) ==
    /\ calls[i].pc = "inspect"
    /\ calls' = [calls EXCEPT ![i].pc = "history", ![i].engine_calls = @ + 1,
                              ![i].inspection = engine.version]
    /\ UNCHANGED <<image_cache, engine, returned, normVars, parseVars, packageVars, matchVars, loadVars, benchVars, sbomVars>>

\* self.client.api.history(image_ref), and the result _inspect builds
HistoryApi(i) ==
    /\ calls[i].pc = "history"
    /\ calls' = [calls EXCEPT ![i].pc = "store", ![i].engine_calls = @ + 1,
                              ![i].inspection = 0,
                              ![i].result = Some(InspectionResult(ImageIdOf(calls[i].ref), calls[i].inspection, engine.version))]
    /\ UNCHANGED <<image_cache, engine, returned, normVars, parseVars, packageVars, matchVars, loadVars, benchVars, sbomVars>>

\* a call to the engine raises a DockerException, which inspect_image turns
\* into AnalysisError
EngineError(i) ==
    /\ calls[i].pc \in {"get", "pull", "inspect", "history"}
    /\ calls' = [calls EXCEPT ![i].pc = "failed", ![i].engine_calls = @ + 1]
    /\ UNCHANGED <<image_cache, engine, returned, normVars, parseVars, packageVars, matchVars, loadVars, benchVars, sbomVars>>

\* after the await: self.image_cache[image_ref] = result; return result
StoreAndReturn(i) ==
    /\ calls[i].pc = "store"
    /\ ~calls[i].cancelled
    /\ image_cache' = Put(image_cache, CacheKey(calls[i].ref), calls[i].result[1])
    /\ calls' = [calls EXCEPT ![i].pc = "done"]
    /\ returned' = returned \cup {calls[i].ref}
    /\ UNCHANGED <<engine, normVars, parseVars, packageVars, matchVars, loadVars, benchVars, sbomVars>>

\* the image behind the references is rebuilt or retagged
ImageChanges ==
    /\ engine.version < MaxVersion
    /\ engine' = [engine EXCEPT !.version = @ + 1]
    /\ UNCHANGED <<image_cache, calls, returned, normVars, parseVars, packageVars, matchVars, loadVars, benchVars, sbomVars>>

NextInspect ==
    \/ \E image_ref \in ImageRefs : BeginInspect(image_ref)
    \/ \E i \in 1..Len(calls) : GetImage(i)
    \/ \E i \in 1..Len(calls) : PullImage(i)
    \/ \E i \in 1..Len(calls) : InspectApi(i)
    \/ \E i \in 1..Len(calls) : HistoryApi(i)
    \/ \E i \in 1..Len(calls) : EngineError(i)
    \/ \E i \in 1..Len(calls) : StoreAndReturn(i)
    \/ ImageChanges

\* another call with the same string went to the engine and returned what
\* call i returned
ReturnedByAnEarlierCall(i) ==
    \E j \in 1..Len(calls) :
        /\ j # i
        /\ calls[j].ref = calls[i].ref
        /\ calls[j].pc = "done"
        /\ calls[j].engine_calls > 0
        /\ calls[j].result = calls[i].result

\* C10: once inspect_image(ref) has returned successfully, every later call
\* with the same reference string returns the cached facts and makes no call
\* to the Docker Engine; a call with a string no call has returned for goes
\* to the engine, also when the other string naming the same image is cached.
C10_LaterCallsUseTheCache ==
    \A i \in 1..Len(calls) :
        /\ calls[i].late =>
              /\ calls[i].pc = "done"
              /\ calls[i].engine_calls = 0
              /\ ReturnedByAnEarlierCall(i)
        /\ (~calls[i].late /\ calls[i].pc = "done") => calls[i].engine_calls > 0

\* img was inspected and returned, the image changed, and a later call for
\* img was served from the cache: no call to the engine, the facts of before
\* the change
C10_SecondCallServedFromCache ==
    /\ Len(calls) = 2
    /\ calls[1].ref = "img" /\ calls[1].pc = "done" /\ calls[1].engine_calls > 0
    /\ calls[2].ref = "img" /\ calls[2].late /\ calls[2].pc = "done"
    /\ calls[2].engine_calls = 0
    /\ calls[2].result = calls[1].result
    /\ calls[2].result[1].History < engine.version

(* SpecConcurrent: calls for references to two images run side by side, and
   the task of a call may be cancelled while it awaits the executor; the
   images stay as they are while the calls run *)

InitConcurrent ==
    /\ image_cache = <<>>
    /\ calls = <<>>
    /\ engine \in [local : SUBSET {"sha256:img", "sha256:other"}, version : {0}]
    /\ returned = {}

\* a cancellation that lets the result the thread has ready into the cache
CancelStoringResult(i) ==
    /\ calls[i].pc \in {"get", "pull", "inspect", "history", "store"}
    /\ ~calls[i].cancelled
    /\ calls' = [calls EXCEPT ![i].cancelled = TRUE]
    /\ image_cache' = IF calls[i].pc = "store"
                      THEN Put(image_cache, CacheKey(calls[i].ref), calls[i].result[1])
                      ELSE image_cache
    /\ UNCHANGED <<engine, returned, normVars, parseVars, packageVars, matchVars, loadVars, benchVars, sbomVars>>

\* the task of call i is cancelled while it awaits run_in_executor:
\* CancelledError is raised at the await and the assignment to the cache is
\* never reached; _inspect runs on in its thread
Cancel(i) ==
    /\ calls[i].pc \in {"get", "pull", "inspect", "history", "store"}
    /\ ~calls[i].cancelled
    /\ calls' = [calls EXCEPT ![i].cancelled = TRUE]
    /\ UNCHANGED <<image_cache, engine, returned, normVars, parseVars, packageVars, matchVars, loadVars, benchVars, sbomVars>>

NextConcurrent ==
    \/ \E image_ref \in AllRefs : BeginInspect(image_ref)
    \/ \E i \in 1..Len(calls) : GetImage(i)
    \/ \E i \in 1..Len(calls) : PullImage(i)
    \/ \E i \in 1..Len(calls) : InspectApi(i)
    \/ \E i \in 1..Len(calls) : HistoryApi(i)
    \/ \E i \in 1..Len(calls) : EngineError(i)
    \/ \E i \in 1..Len(calls) : StoreAndReturn(i)
    \/ \E i \in 1..Len(calls) : Cancel(i)

\* call i raised: an engine call of its thread failed, or it was cancelled
FailedOrCancelled(i) == calls[i].pc = "failed" \/ calls[i].cancelled

\* the step is the return of call j, which stores its own result under its
\* own reference and leaves the rest of the cache as it was
WritesCacheFor(j) ==
    /\ calls[j].pc = "store" /\ ~calls[j].cancelled
    /\ calls'[j].pc = "done"
    /\ image_cache' = Put(image_cache, calls[j].ref, calls[j].result[1])

\* C24: a call of inspect_image that fails (engine error, image neither
\* local nor pullable) or is cancelled while the engine request is in flight
\* returns no facts and writes nothing to the cache: every change of the
\* cache is the entry a returning call stores for its own reference, a call
\* that failed or was cancelled never returns, and a call that returned
\* never fails.
C24_FailedCallWritesNoCache ==
    [][/\ image_cache' # image_cache => \E j \in 1..Len(calls) : WritesCacheFor(j)
       /\ \A i \in 1..Len(calls) :
             /\ FailedOrCancelled(i) =>
                    (calls'[i].pc # "done" /\ (calls'[i].pc = "failed" \/ calls'[i].cancelled))
             /\ calls[i].pc = "done" => calls'[i] = calls[i]]_vars

\* a call for other returned and is cached; a call for img was cancelled
\* with the result of its thread ready, and the cache has no entry for img
C24_CancelledResultNotCached ==
    /\ Len(calls) = 2
    /\ calls[1].ref = "other" /\ calls[1].pc = "done"
    /\ calls[2].ref = "img" /\ calls[2].cancelled /\ calls[2].pc = "store"
    /\ calls[2].result # None
    /\ DOMAIN image_cache = {"other"}

\* C25: under any interleaving of inspect_image calls on one inspector, a
\* call that returns returns facts of the image its own reference names, and
\* every cache entry holds facts of the image its key names and is the
\* result of a completed inspection of that reference.
C25_EveryCallGetsItsOwnFacts ==
    /\ \A i \in 1..Len(calls) :
          calls[i].pc = "done" =>
              (calls[i].result # None /\ calls[i].result[1].Id = ImageIdOf(calls[i].ref))
    /\ \A ref \in DOMAIN image_cache :
          /\ image_cache[ref].Id = ImageIdOf(ref)
          /\ \E i \in 1..Len(calls) :
                /\ calls[i].ref = ref /\ calls[i].pc = "done" /\ calls[i].engine_calls > 0
                /\ calls[i].result = Some(image_cache[ref])

\* two calls for other ran side by side: both went to the engine, neither
\* began after the other had returned, both returned the facts of other and
\* the cache holds them
C25_TwoCallsSideBySide ==
    /\ Len(calls) = 2
    /\ calls[1].ref = "other" /\ calls[2].ref = "other"
    /\ calls[1].pc = "done" /\ calls[2].pc = "done"
    /\ calls[1].engine_calls > 0 /\ calls[2].engine_calls > 0
    /\ ~calls[1].late /\ ~calls[2].late
    /\ image_cache["other"].Id = "sha256:other"

-----------------------------------------------------------------------------
(* SpecLoad: the matching settings are loaded (app/config.py).  Settings()   *)
(* builds MatchingSettings from the values it is given; a validator that     *)
(* raises makes the load fail with a ValidationError.                        *)

\* a value below the range, one inside it, one above it
OfferedValues == {Rat(-1, 2), Pct(50), Rat(3, 2)}

\* the default settings with one option set to an offered value
Candidates ==
    {[DefaultSettings EXCEPT ![g][f] = v] :
        g \in DOMAIN DefaultSettings, f \in UNION {DOMAIN DefaultSettings[x] : x \in DOMAIN DefaultSettings},
        v \in OfferedValues}

LoadIdle == candidate = <<>> /\ loaded = "unset"

InitLoad ==
    /\ candidate \in {c \in Candidates : \A g \in DOMAIN c : DOMAIN c[g] = DOMAIN DefaultSettings[g]}
    /\ loaded = "unset"

\* settings = Settings(), with candidate as the values of matching
LoadSettings ==
    /\ loaded = "unset"
    /\ loaded' = IF LoaderAccepts(candidate) THEN "loaded" ELSE "ValidationError"
    /\ UNCHANGED <<candidate, normVars, parseVars, packageVars, matchVars, inspectVars, benchVars, sbomVars>>

NextLoad == LoadSettings

\* some numeric option of the settings lies outside [0,1]
OutOfRange(s) ==
    \E g \in DOMAIN s : \E f \in DOMAIN s[g] : ~(RLe(Zero, s[g][f]) /\ RLe(s[g][f], One))

\* C11: loading the matching configuration rejects every numeric option
\* whose value lies outside [0,1], in all seven groups.
C11_LoaderRejectsOutOfRange ==
    (loaded # "unset" /\ OutOfRange(candidate)) => loaded = "ValidationError"

\* the settings with layer_matching.command_weight = 1.5 are loaded
C11_CommandWeightAboveOneLoaded ==
    /\ candidate = [DefaultSettings EXCEPT !.layer_matching.command_weight = Rat(3, 2)]
    /\ loaded = "loaded"

-----------------------------------------------------------------------------
(* DockerfileImageMatcher (dockersdk/match_benchmark.py): the facet scorers  *)
(* of calculate_match_score.  A scorer returns a score and a details text;   *)
(* of the text the model keeps which of its messages it is.                  *)

MaxPorts == 2

BenchIdle == bench_args = <<>> /\ bench_scores = <<>>

Scored(score, details) == [score |-> score, details |-> details]

\* the ports of the model, and whether the text of each has a '/'
PortTexts == {"8080", "8080/tcp", "9090", "9090/tcp", "53/udp"}
HasProtocol(port) == port \in {"8080/tcp", "9090/tcp", "53/udp"}

\* normalize_port of _score_ports
NormalizePort(port) ==
    IF HasProtocol(port) THEN port
    ELSE IF port = "8080" THEN "8080/tcp" ELSE "9090/tcp"

\* matches / total of _score_ports, total being the Dockerfile ports
PortsRatio(dockerfile_ports_norm, image_ports_norm) ==
    Scored(Rat(Cardinality(dockerfile_ports_norm \cap image_ports_norm),
               Cardinality(dockerfile_ports_norm)),
           IF dockerfile_ports_norm \cap image_ports_norm # {}
           THEN "Matched" ELSE "No matching ports")

\* _score_ports(dockerfile_ports, image_ports); image_ports is None or the
\* keys of ExposedPorts
ScorePorts(dockerfile_ports, image_ports) ==
    IF dockerfile_ports = <<>> /\ (image_ports = None \/ image_ports = Some({}))
    THEN Scored(One, "No ports exposed in either")
    ELSE IF dockerfile_ports = <<>> \/ image_ports = None \/ image_ports = Some({})
    THEN Scored(Zero, "Ports exposed in only one source")
    ELSE PortsRatio({NormalizePort(port) : port \in Range(dockerfile_ports)}, image_ports[1])

(* SpecPorts: _score_ports is called *)

InitPorts ==
    /\ bench_args \in [dockerfile_ports : SeqsUpTo(PortTexts, MaxPorts),
                        image_ports : {None} \cup {Some(ps) : ps \in SUBSET {port \in PortTexts : HasProtocol(port)}}]
    /\ bench_scores = <<>>

CallScorePorts ==
    /\ bench_scores = <<>>
    /\ bench_scores' = <<ScorePorts(bench_args.dockerfile_ports, bench_args.image_ports)>>
    /\ UNCHANGED <<bench_args, normVars, parseVars, packageVars, matchVars, inspectVars, loadVars, sbomVars>>

NextPorts == CallScorePorts

\* the larger of two numbers
Larger(a, b) == IF a >= b THEN a ELSE b

\* the Dockerfile ports, each without a protocol taken as N/tcp
NormalizedPorts == {NormalizePort(port) : port \in Range(bench_args.dockerfile_ports)}

\* C15: with every Dockerfile port lacking a protocol normalized to N/tcp,
\* _score_ports returns |df /\ img| / max(|df|, |img|) for every non-empty
\* Dockerfile port set df and image port set img.
C15_PortsOverlapOverLarger ==
    (bench_scores # <<>> /\ bench_args.dockerfile_ports # <<>> /\ bench_args.image_ports # None) =>
        bench_scores[1].score =
            Rat(Cardinality(NormalizedPorts \cap bench_args.image_ports[1]),
                Larger(Cardinality(NormalizedPorts), Cardinality(bench_args.image_ports[1])))

\* EXPOSE 8080 against an image exposing 8080/tcp and 9090/tcp scores 1.0
C15_ExtraImagePortIgnored ==
    /\ bench_args.dockerfile_ports = <<"8080">>
    /\ bench_args.image_ports = Some({"8080/tcp", "9090/tcp"})
    /\ bench_scores = <<Scored(One, "Matched")>>


(* SpecPlatform: run_benchmark takes the platform of the first FROM and
   _score_platform scores it against the architecture of the image *)

\* the platforms a FROM line carries after --platform=, the base images it
\* names, and the architectures an image reports ("" when it reports none)
PlatformTexts == {"linux/amd64", "LINUX/AMD64", "linux/x86_64", "amd64",
                  "linux/arm64", "linux/aarch64", "linux/arm/v7", "arm64"}
BaseNames == {"base", "ubuntu:22.04", "amd64/ubuntu", "arm64v8/alpine"}
Architectures == {"", "amd64", "x86_64", "arm64", "aarch64", "s390x", "arm"}

\* the first FROM line: its --platform= flag, if any, and its image
PlatformFrom(platform, name) == [platform |-> platform, name |-> name]
PlatformFroms == {PlatformFrom(platform, name) :
                 platform \in {None} \cup {Some(p) : p \in PlatformTexts}, name \in BaseNames}

\* needle in text.lower(), for the needles of _score_platform
ContainsLinuxAmd64(text) == text \in {"linux/amd64", "LINUX/AMD64"}
ContainsLinuxArm64(text) == text \in {"linux/arm64"}
ContainsAmd64(text) == text \in {"linux/amd64", "LINUX/AMD64", "amd64", "amd64/ubuntu"}
ContainsArm64(text) == text \in {"linux/arm64", "arm64", "arm64v8/alpine"}

\* platform of run_benchmark: what follows --platform= in the first FROM
PlatformOf(from_line) ==
    IF from_line.platform = None THEN "" ELSE from_line.platform[1]

\* base_image of the analysis: the first argument of the first FROM, which is
\* the flag --platform=P when the line has one
AnalysisBaseImage(from_line) ==
    IF from_line.platform = None THEN from_line.name ELSE from_line.platform[1]

\* "base_image" of run_benchmark: f"{base_image} ({platform})" when there is
\* a platform, the base image alone when there is none
BenchBaseImage(from_line) ==
    [base |-> AnalysisBaseImage(from_line), platform_part |-> PlatformOf(from_line)]

\* the architecture _score_platform reads off the Dockerfile side
DockerfileArch(dockerfile_platform, image_arch) ==
    IF dockerfile_platform.platform_part # "" /\ ContainsLinuxAmd64(dockerfile_platform.platform_part)
    THEN "amd64"
    ELSE IF dockerfile_platform.platform_part # "" /\ ContainsLinuxArm64(dockerfile_platform.platform_part)
    THEN "arm64"
    ELSE IF ContainsAmd64(dockerfile_platform.base) \/ ContainsAmd64(dockerfile_platform.platform_part)
    THEN "amd64"
    ELSE IF ContainsArm64(dockerfile_platform.base) \/ ContainsArm64(dockerfile_platform.platform_part)
    THEN "arm64"
    ELSE image_arch

\* arch_mapping of _score_platform
ArchMapping(arch_family) ==
    IF arch_family = "amd64" THEN {"amd64", "x86_64"} ELSE {"arm64", "aarch64"}

\* _score_platform(dockerfile_platform, image_arch)
ScorePlatform(dockerfile_platform, image_arch) ==
    IF image_arch = ""
    THEN Scored(Zero, "Missing image architecture information")
    ELSE IF \E arch_family \in {"amd64", "arm64"} :
                /\ DockerfileArch(dockerfile_platform, image_arch) \in ArchMapping(arch_family)
                /\ image_arch \in ArchMapping(arch_family)
    THEN Scored(One, "Architecture match")
    ELSE Scored(Zero, "Architecture mismatch")

InitPlatform ==
    /\ bench_args \in [from_line : PlatformFroms, image_arch : Architectures]
    /\ bench_scores = <<>>

\* run_benchmark up to the platform facet of calculate_match_score
RunBenchmarkPlatform ==
    /\ bench_scores = <<>>
    /\ bench_scores' = <<ScorePlatform(BenchBaseImage(bench_args.from_line), bench_args.image_arch)>>
    /\ UNCHANGED <<bench_args, normVars, parseVars, packageVars, matchVars, inspectVars, loadVars, sbomVars>>

NextPlatform == RunBenchmarkPlatform

\* the architecture a platform or a base image names, "" when it names none
ArchNamedBy(text) ==
    CASE text \in {"linux/amd64", "LINUX/AMD64", "amd64", "amd64/ubuntu"} -> "amd64"
      [] text = "linux/x86_64" -> "x86_64"
      [] text \in {"linux/arm64", "arm64", "arm64v8/alpine"} -> "arm64"
      [] text = "linux/aarch64" -> "aarch64"
      [] text = "linux/arm/v7" -> "arm"
      [] OTHER -> ""

\* the architecture the Dockerfile names: that of --platform= in FROM, else
\* that of an amd64/arm64 substring of the base image
NamedArch(from_line) ==
    IF from_line.platform # None THEN ArchNamedBy(from_line.platform[1])
    ELSE ArchNamedBy(from_line.name)

SameAliasClass(a, b) ==
    \/ {a, b} \subseteq {"amd64", "x86_64"}
    \/ {a, b} \subseteq {"arm64", "aarch64"}

\* C14: a Dockerfile that names an architecture scores 1.0 on the platform
\* facet when that architecture and the image's are in the same alias class
\* ({amd64, x86_64} or {arm64, aarch64}) and 0.0 otherwise; a Dockerfile that
\* names none scores 1.0 against every image with a non-empty architecture.
C14_PlatformFacet ==
    bench_scores # <<>> =>
        IF NamedArch(bench_args.from_line) # ""
        THEN bench_scores[1].score =
                 (IF SameAliasClass(NamedArch(bench_args.from_line), bench_args.image_arch)
                  THEN One ELSE Zero)
        ELSE bench_args.image_arch # "" => bench_scores[1].score = One

\* FROM base against an image of architecture s390x scores 0.0
C14_DefaultedArchMismatch ==
    /\ bench_args.from_line = PlatformFrom(None, "base")
    /\ bench_args.image_arch = "s390x"
    /\ bench_scores = <<Scored(Zero, "Architecture mismatch")>>

(* SpecLayers: _score_layers is called on the instructions run_benchmark
   builds and on an image history, then once more on the same history with
   two entries exchanged or in reversed order *)

\* most RUN/COPY/ADD instructions of a Dockerfile, most entries of a history
MaxLayerInsts == 2
MaxHistory == 3

\* a command text: what precedes its words, and its words
CommandText(prefix, words) == [prefix |-> prefix, words |-> words]

\* an instruction as run_benchmark hands it over: "value" is the content of
\* the instruction, keyword included
BenchInstruction(type, args) ==
    [type |-> type, value |-> CommandText("", <<type>> \o args)]

LayerCreating ==
    {BenchInstruction("RUN", args) : args \in {<<"a">>, <<"b">>, <<"a", "b">>, <<"b", "a">>}}
        \cup {BenchInstruction("COPY", <<"a", "b">>)}

\* the instruction lists: a FROM or none, then RUN and COPY instructions
BenchInstructions ==
    {from \o rest : from \in {<<>>, <<BenchInstruction("FROM", <<"a">>)>>},
                    rest \in SeqsUpTo(LayerCreating, MaxLayerInsts)}

\* created_by of a history entry; CommandText("", <<>>) is the empty text
CreatedBy ==
    {CommandText("", <<>>),
     CommandText("/bin/sh -c ", <<"a">>),
     CommandText("/bin/sh -c ", <<"b">>),
     CommandText("/bin/sh -c ", <<"a", "b">>),
     CommandText("/bin/sh -c ", <<"b", "a">>),
     CommandText("|0 /bin/sh -c ", <<"a">>),
     CommandText("/bin/sh -c #(nop) ", <<"COPY", "a", "b">>)}

\* normalize_command of _score_layers: the text after "#(nop)", without a
\* leading "/bin/sh -c ", stripped; here as its words
NormalizeLayerCommand(text) ==
    IF text.prefix = "/bin/sh -c #(nop) " THEN text.words
    ELSE IF text.prefix = "/bin/sh -c " THEN text.words
    ELSE IF text.prefix = "|0 /bin/sh -c " THEN <<"|0", "/bin/sh", "-c">> \o text.words
    ELSE text.words

\* layer_instructions of _score_layers
LayerInstructions(dockerfile_instructions) ==
    SelectSeq(dockerfile_instructions, LAMBDA inst : inst.type \in {"RUN", "COPY", "ADD"})

\* history_commands of _score_layers: (idx, cmd) of every entry whose
\* created_by and normalized command are not empty, idx counted from 0 in
\* the whole history
HistoryCommands(image_history) ==
    SelectSeq([k \in 1..Len(image_history) |->
                  [idx |-> k - 1, cmd |-> NormalizeLayerCommand(image_history[k])]],
              LAMBDA hc : hc.cmd # <<>>)

\* type_weights of _score_layers
LayerTypeWeight(type) == IF type = "RUN" THEN One ELSE Rat(8, 10)

Abs(n) == IF n < 0 THEN 0 - n ELSE n

\* similarity of an instruction and a history command
LayerSimilarity(type, inst_value, hist_cmd) ==
    IF type = "RUN"
    THEN IF Range(inst_value) # {} /\ Range(hist_cmd) # {}
         THEN Rat(Cardinality(Range(inst_value) \cap Range(hist_cmd)),
                  Cardinality(Range(inst_value) \cup Range(hist_cmd)))
         ELSE Zero
    ELSE IF inst_value = hist_cmd THEN One ELSE Zero

\* sequence_penalty = abs(inst_idx - hist_idx) / len(history_commands)
SequencePenalty(inst_idx, hist_idx, history_commands) ==
    Rat(Abs(inst_idx - hist_idx), Len(history_commands))

\* match_score = similarity * (1 - sequence_penalty * 0.5)
LayerMatchScore(similarity, sequence_penalty) ==
    RMul(similarity, RAdd(One, RMul(sequence_penalty, Rat(-1, 2))))

\* match_score of instruction inst at inst_idx against history command hc
PairingScore(inst, inst_idx, hc, history_commands) ==
    LayerMatchScore(LayerSimilarity(inst.type, NormalizeLayerCommand(inst.value), hc.cmd),
                    SequencePenalty(inst_idx, hc.idx, history_commands))

\* the inner loop of _score_layers from history command k on: the first
\* unused history command of the highest match_score above 0
RECURSIVE BestLayerMatch(_, _, _, _, _, _)
BestLayerMatch(inst, inst_idx, history_commands, matched, k, best) ==
    IF k > Len(history_commands) THEN best
    ELSE IF history_commands[k].idx \in matched
    THEN BestLayerMatch(inst, inst_idx, history_commands, matched, k + 1, best)
    ELSE IF RLt(best.score, PairingScore(inst, inst_idx, history_commands[k], history_commands))
    THEN BestLayerMatch(inst, inst_idx, history_commands, matched, k + 1,
                        [score |-> PairingScore(inst, inst_idx, history_commands[k], history_commands),
                         idx |-> history_commands[k].idx])
    ELSE BestLayerMatch(inst, inst_idx, history_commands, matched, k + 1, best)

\* best_match_score = 0 and best_match_idx = -1
NoLayerMatch == [score |-> Zero, idx |-> -1]

\* one pairing the inner loop computes
Pairing(inst, inst_idx, hc, history_commands) ==
    [inst_idx |-> inst_idx, hist_idx |-> hc.idx,
     similarity |-> LayerSimilarity(inst.type, NormalizeLayerCommand(inst.value), hc.cmd),
     sequence_penalty |-> SequencePenalty(inst_idx, hc.idx, history_commands),
     match_score |-> PairingScore(inst, inst_idx, hc, history_commands)]

\* the end of the outer loop's body: the match is recorded when
\* best_match_score >= 0.5
RecordMatch(acc, inst, inst_idx, history_commands, best) ==
    [matches |-> IF RLe(Rat(1, 2), best.score)
                 THEN Append(acc.matches, RMul(best.score, LayerTypeWeight(inst.type)))
                 ELSE acc.matches,
     matched |-> IF RLe(Rat(1, 2), best.score) THEN acc.matched \cup {best.idx} ELSE acc.matched,
     decisions |-> Append(acc.decisions,
                          [matched |-> RLe(Rat(1, 2), best.score), score |-> best.score, idx |-> best.idx]),
     pairings |-> acc.pairings \cup
                  {Pairing(inst, inst_idx, hc, history_commands) :
                      hc \in {h \in Range(history_commands) : h.idx \notin acc.matched}}]

\* the outer loop of _score_layers from instruction inst_idx (from 0) on
RECURSIVE MatchLayerInstructions(_, _, _, _)
MatchLayerInstructions(layer_instructions, history_commands, inst_idx, acc) ==
    IF inst_idx >= Len(layer_instructions) THEN acc
    ELSE MatchLayerInstructions(layer_instructions, history_commands, inst_idx + 1,
             RecordMatch(acc, layer_instructions[inst_idx + 1], inst_idx, history_commands,
                         BestLayerMatch(layer_instructions[inst_idx + 1], inst_idx, history_commands,
                                        acc.matched, 1, NoLayerMatch)))

NothingMatched == [matches |-> <<>>, matched |-> {}, decisions |-> <<>>, pairings |-> {}]

\* what a call of _score_layers returns, with the decisions it took
LayersResult(score, details, acc) ==
    [score |-> score, details |-> details, matched |-> acc.matched,
     decisions |-> acc.decisions, pairings |-> acc.pairings]

\* the final score: sum(matches) / len(layer_instructions)
FinalLayersScore(acc, layer_instructions) ==
    IF acc.matches = <<>> THEN LayersResult(Zero, "No layer matches found", acc)
    ELSE LayersResult(RMul(RSum(acc.matches), Rat(1, Len(layer_instructions))), "Matched", acc)

\* _score_layers(dockerfile_instructions, image_history)
ScoreLayers(dockerfile_instructions, image_history) ==
    IF dockerfile_instructions = <<>> \/ image_history = <<>>
    THEN LayersResult(Zero, "Missing layer information", NothingMatched)
    ELSE IF LayerInstructions(dockerfile_instructions) = <<>>
    THEN LayersResult(One, "No layer-creating instructions to match", NothingMatched)
    ELSE FinalLayersScore(MatchLayerInstructions(LayerInstructions(dockerfile_instructions),
                                                 HistoryCommands(image_history), 0, NothingMatched),
                          LayerInstructions(dockerfile_instructions))

\* a history with entries j and k exchanged, and a history in reversed order
Exchanged(xs, j, k) ==
    [n \in 1..Len(xs) |-> IF n = j THEN xs[k] ELSE IF n = k THEN xs[j] ELSE xs[n]]
Reversed(xs) == [n \in 1..Len(xs) |-> xs[Len(xs) + 1 - n]]

\* a call of a run: the history it was given, how that history was made from
\* the first one, and what _score_layers returned
LayersCall(history, change, result) == [history |-> history, change |-> change, result |-> result]

InitLayers ==
    /\ bench_args \in [dockerfile_instructions : BenchInstructions,
                        image_history : SeqsUpTo(CreatedBy, MaxHistory)]
    /\ bench_scores = <<>>

\* the first call
CallScoreLayers ==
    /\ bench_scores = <<>>
    /\ bench_scores' = <<LayersCall(bench_args.image_history, <<"none">>,
                                    ScoreLayers(bench_args.dockerfile_instructions,
                                                bench_args.image_history))>>
    /\ UNCHANGED <<bench_args, normVars, parseVars, packageVars, matchVars, inspectVars, loadVars, sbomVars>>

\* a second call, on the history with entries j and k exchanged
CallScoreLayersExchanged(j, k) ==
    /\ Len(bench_scores) = 1
    /\ j < k
    /\ bench_scores' = Append(bench_scores,
           LayersCall(Exchanged(bench_args.image_history, j, k), <<"exchanged", j - 1, k - 1>>,
                      ScoreLayers(bench_args.dockerfile_instructions,
                                  Exchanged(bench_args.image_history, j, k))))
    /\ UNCHANGED <<bench_args, normVars, parseVars, packageVars, matchVars, inspectVars, loadVars, sbomVars>>

\* a second call, on the history in reversed order
CallScoreLayersReversed ==
    /\ Len(bench_scores) = 1
    /\ Len(bench_args.image_history) >= 2
    /\ bench_scores' = Append(bench_scores,
           LayersCall(Reversed(bench_args.image_history), <<"reversed">>,
                      ScoreLayers(bench_args.dockerfile_instructions,
                                  Reversed(bench_args.image_history))))
    /\ UNCHANGED <<bench_args, normVars, parseVars, packageVars, matchVars, inspectVars, loadVars, sbomVars>>

NextLayers ==
    \/ CallScoreLayers
    \/ \E j, k \in 1..Len(bench_args.image_history) : CallScoreLayersExchanged(j, k)
    \/ CallScoreLayersReversed

\* what _score_layers decided for each instruction: matched or not, and the
\* match score
DecisionsOf(call) ==
    [n \in 1..Len(call.result.decisions) |->
        [matched |-> call.result.decisions[n].matched, score |-> call.result.decisions[n].score]]

\* the second call was given the first history with two entries exchanged
\* that the first call matched to no instruction
ExchangedUnmatched ==
    /\ Len(bench_scores) = 2
    /\ bench_scores[2].change[1] = "exchanged"
    /\ bench_scores[2].change[2] \notin bench_scores[1].result.matched
    /\ bench_scores[2].change[3] \notin bench_scores[1].result.matched

\* C12: exchanging two history entries that the first run of _score_layers
\* matched to no instruction leaves, in a second run on the modified history,
\* the match decision and the match score of every instruction unchanged.
C12_ExchangeOfUnmatchedKeepsDecisions ==
    ExchangedUnmatched => DecisionsOf(bench_scores[2]) = DecisionsOf(bench_scores[1])

\* RUN a against the history [/bin/sh -c b, /bin/sh -c a] is not matched
\* (3/8), and is matched (1/2) once the two entries are exchanged
C12_ExchangeCreatesMatch ==
    /\ bench_args.dockerfile_instructions = <<BenchInstruction("RUN", <<"a">>)>>
    /\ bench_args.image_history = <<CommandText("/bin/sh -c ", <<"b">>), CommandText("/bin/sh -c ", <<"a">>)>>
    /\ ExchangedUnmatched
    /\ DecisionsOf(bench_scores[1]) = <<[matched |-> FALSE, score |-> Rat(3, 8)]>>
    /\ DecisionsOf(bench_scores[2]) = <<[matched |-> TRUE, score |-> Rat(1, 2)]>>

\* the command of an instruction: its value without the keyword
CommandOf(inst) == Tail(inst.value.words)

\* the Dockerfile has two or more RUN commands, all distinct, and no COPY or
\* ADD, and the history holds exactly those commands in Dockerfile order
RunsInOrder(dockerfile_instructions, image_history) ==
    /\ Len(LayerInstructions(dockerfile_instructions)) >= 2
    /\ Len(image_history) = Len(LayerInstructions(dockerfile_instructions))
    /\ \A n \in 1..Len(image_history) :
          /\ LayerInstructions(dockerfile_instructions)[n].type = "RUN"
          /\ image_history[n].prefix = "/bin/sh -c "
          /\ image_history[n].words = CommandOf(LayerInstructions(dockerfile_instructions)[n])
    /\ \A m, n \in 1..Len(image_history) : m # n => image_history[m] # image_history[n]

\* C13: for a Dockerfile with two or more distinct RUN commands and a history
\* holding exactly those commands, _score_layers scores the reversed history
\* strictly below the history in Dockerfile order, and strictly above 0.
C13_ReversedScoresLessButPositive ==
    (/\ Len(bench_scores) = 2
     /\ bench_scores[2].change = <<"reversed">>
     /\ RunsInOrder(bench_args.dockerfile_instructions, bench_args.image_history)) =>
        /\ RLt(bench_scores[2].result.score, bench_scores[1].result.score)
        /\ RLt(Zero, bench_scores[2].result.score)

\* FROM a, RUN a, RUN b scores 1/2 against [/bin/sh -c a, /bin/sh -c b] and
\* 0 against the reversed history
C13_ReversedScoresZero ==
    /\ bench_args.dockerfile_instructions =
           <<BenchInstruction("FROM", <<"a">>), BenchInstruction("RUN", <<"a">>), BenchInstruction("RUN", <<"b">>)>>
    /\ RunsInOrder(bench_args.dockerfile_instructions, bench_args.image_history)
    /\ Len(bench_scores) = 2
    /\ bench_scores[2].change = <<"reversed">>
    /\ bench_scores[1].result.score = Rat(1, 2)
    /\ bench_scores[2].result.score = Zero
    /\ bench_scores[2].result.details = "No layer matches found"

\* C19: _score_layers returns 1.0 whenever the Dockerfile has no RUN, COPY or
\* ADD instruction, for every image history, the empty one included.
C19_NoLayerInstructionsScoresOne ==
    (bench_scores # <<>> /\ LayerInstructions(bench_args.dockerfile_instructions) = <<>>) =>
        bench_scores[1].result.score = One

\* FROM a alone against the empty history scores 0.0
C19_EmptyHistoryScoresZero ==
    /\ bench_args.dockerfile_instructions = <<BenchInstruction("FROM", <<"a">>)>>
    /\ bench_args.image_history = <<>>
    /\ Len(bench_scores) = 1
    /\ bench_scores[1].result.score = Zero
    /\ bench_scores[1].result.details = "Missing layer information"

\* the pairings the first call computed
PairingsOfFirstCall == IF bench_scores = <<>> THEN {} ELSE bench_scores[1].result.pairings

\* C20: for every instruction index i and history index j that _score_layers
\* pairs, the sequence penalty lies in [0,1], and the pairing score
\* similarity * (1 - 0.5 * penalty) lies in [0,1] and is at least half of the
\* similarity, also with empty created_by entries in the history and with
\* more layer-creating instructions than history entries.
C20_PenaltyAndPairingScoreInRange ==
    \A p \in PairingsOfFirstCall :
        /\ RLe(Zero, p.sequence_penalty) /\ RLe(p.sequence_penalty, One)
        /\ RLe(Zero, p.match_score) /\ RLe(p.match_score, One)
        /\ RLe(RMul(p.similarity, Rat(1, 2)), p.match_score)

\* RUN a against a history of two empty entries and then /bin/sh -c a: the
\* one pairing has similarity 1/2, penalty |0 - 2| / 1 = 2 and score 0
C20_PenaltyOfTwo ==
    /\ bench_args.dockerfile_instructions = <<BenchInstruction("RUN", <<"a">>)>>
    /\ bench_args.image_history =
           <<CommandText("", <<>>), CommandText("", <<>>), CommandText("/bin/sh -c ", <<"a">>)>>
    /\ PairingsOfFirstCall =
           {[inst_idx |-> 0, hist_idx |-> 2, similarity |-> Rat(1, 2),
             sequence_penalty |-> Rat(2, 1), match_score |-> Zero]}

(* SpecWorkdir: run_benchmark hands the instructions to _score_workdir, which
   scores the last WORKDIR against the WorkingDir of the image *)

\* most instructions after FROM
MaxWorkdirInsts == 2

WorkdirPaths == {"/app", "/app/", "/srv"}

\* the instruction lists: a FROM, then WORKDIR and RUN instructions
WorkdirInstructions ==
    {<<BenchInstruction("FROM", <<"a">>)>> \o rest :
        rest \in SeqsUpTo({BenchInstruction("WORKDIR", <<path>>) : path \in WorkdirPaths}
                              \cup {BenchInstruction("RUN", <<"a">>)}, MaxWorkdirInsts)}

\* WorkingDir of the image config, as its words; <<>> is the empty text
ImageWorkdirs ==
    {<<>>} \cup {<<path>> : path \in WorkdirPaths}
           \cup {<<"WORKDIR", path>> : path \in {"/app", "/app/"}}

\* text.rstrip('/') of a text given as its words
RStripSlash(words) ==
    IF words # <<>> /\ words[Len(words)] = "/app/"
    THEN [words EXCEPT ![Len(words)] = "/app"]
    ELSE words

\* the value of the last WORKDIR instruction, None when there is none
RECURSIVE FinalWorkdir(_, _)
FinalWorkdir(dockerfile_instructions, n) ==
    IF n = 0 THEN None
    ELSE IF dockerfile_instructions[n].type = "WORKDIR"
    THEN Some(dockerfile_instructions[n].value.words)
    ELSE FinalWorkdir(dockerfile_instructions, n - 1)

\* the comparison of _score_workdir
CompareWorkdirs(final_workdir, image_workdir) ==
    IF final_workdir = None
    THEN Scored(IF image_workdir = <<>> THEN One ELSE Zero, "No WORKDIR specified")
    ELSE IF final_workdir[1] = image_workdir
    THEN Scored(One, "Exact WORKDIR match")
    ELSE IF RStripSlash(final_workdir[1]) = RStripSlash(image_workdir)
    THEN Scored(Rat(9, 10), "WORKDIR match (ignoring trailing slash)")
    ELSE Scored(Zero, "WORKDIR mismatch")

\* _score_workdir(dockerfile_instructions, image_workdir)
ScoreWorkdir(dockerfile_instructions, image_workdir) ==
    IF dockerfile_instructions = <<>>
    THEN Scored(Zero, "No Dockerfile instructions")
    ELSE CompareWorkdirs(FinalWorkdir(dockerfile_instructions, Len(dockerfile_instructions)),
                         image_workdir)

InitWorkdir ==
    /\ bench_args \in [dockerfile_instructions : WorkdirInstructions, image_workdir : ImageWorkdirs]
    /\ bench_scores = <<>>

\* run_benchmark up to the workdir facet of calculate_match_score
RunBenchmarkWorkdir ==
    /\ bench_scores = <<>>
    /\ bench_scores' = <<ScoreWorkdir(bench_args.dockerfile_instructions, bench_args.image_workdir)>>
    /\ UNCHANGED <<bench_args, normVars, parseVars, packageVars, matchVars, inspectVars, loadVars, sbomVars>>

NextWorkdir == RunBenchmarkWorkdir

\* the path of the last WORKDIR instruction of the Dockerfile, None when it
\* has none
LastWorkdirPath ==
    IF FinalWorkdir(bench_args.dockerfile_instructions, Len(bench_args.dockerfile_instructions)) = None
    THEN None
    ELSE Some(Tail(FinalWorkdir(bench_args.dockerfile_instructions,
                                Len(bench_args.dockerfile_instructions))[1]))

\* C23: in a benchmark run the workdir score is 1.0 when the path of the last
\* WORKDIR equals the image's WorkingDir, 0.9 when the two are equal only
\* after a trailing '/' is trimmed, and 0.0 otherwise; without a WORKDIR it
\* is 1.0 if the image has no WorkingDir and 0.0 if it has one.
C23_WorkdirScore ==
    bench_scores # <<>> =>
        bench_scores[1].score =
            (IF LastWorkdirPath = None
             THEN (IF bench_args.image_workdir = <<>> THEN One ELSE Zero)
             ELSE IF LastWorkdirPath[1] = bench_args.image_workdir THEN One
             ELSE IF RStripSlash(LastWorkdirPath[1]) = RStripSlash(bench_args.image_workdir)
             THEN Rat(9, 10)
             ELSE Zero)

\* FROM a, WORKDIR /app against an image of WorkingDir /app scores 0.0
C23_SameWorkdirScoresZero ==
    /\ bench_args.dockerfile_instructions =
           <<BenchInstruction("FROM", <<"a">>), BenchInstruction("WORKDIR", <<"/app">>)>>
    /\ bench_args.image_workdir = <<"/app">>
    /\ bench_scores = <<Scored(Zero, "WORKDIR mismatch")>>

-----------------------------------------------------------------------------
(* SpecHistory: run_benchmark from the engine's history to the layers facet. *)
(* inspect_image builds one dict per entry of the engine's history, and      *)
(* calculate_match_score hands the list of those dicts to _score_layers.     *)
(* The histories are those of InitLayers, read as the CreatedBy texts the    *)
(* engine reports.                                                            *)

\* the history item inspect_image builds from an entry of the engine's history
HistoryItem(created_by) ==
    [Id |-> "<missing>", CreatedBy |-> created_by, Size |-> 0, Comment |-> ""]

\* "History" of the result of inspect_image
InspectedHistory(engine_history) ==
    [k \in 1..Len(engine_history) |-> HistoryItem(engine_history[k])]

\* dict.get(key): None when the dict has no such key
DictGet(d, key) == IF key \in DOMAIN d THEN Some(d[key]) ELSE None

\* h.get("created_by") of _score_layers; None is skipped as the empty text is
CreatedByOf(h) ==
    IF DictGet(h, "created_by") = None THEN CommandText("", <<>>)
    ELSE DictGet(h, "created_by")[1]

\* what _score_layers reads from each entry of the history it is given
CreatedByTexts(history) == [k \in 1..Len(history) |-> CreatedByOf(history[k])]

\* the outcome of a run: the inspected history, the match candidates and the
\* layers facet
HistoryRun(history, result) ==
    [history |-> history, candidates |-> HistoryCommands(CreatedByTexts(history)),
     result |-> result]

\* run_benchmark up to the layers facet of calculate_match_score
RunBenchmarkLayersWith(history) ==
    /\ bench_scores = <<>>
    /\ bench_scores' = <<HistoryRun(history,
                                    ScoreLayers(bench_args.dockerfile_instructions,
                                                CreatedByTexts(history)))>>
    /\ UNCHANGED <<bench_args, normVars, parseVars, packageVars, matchVars, inspectVars, loadVars, sbomVars>>

RunBenchmarkLayers == RunBenchmarkLayersWith(InspectedHistory(bench_args.image_history))

NextHistory == RunBenchmarkLayers

\* the positions, counted from 0, of the inspected entries whose creating
\* command is not empty
CreatingPositions(history) ==
    {k - 1 : k \in {n \in 1..Len(history) : history[n].CreatedBy.words # <<>>}}

\* C30: in a benchmark run every inspected history entry with a non-empty
\* creating command is a match candidate of _score_layers, and an image whose
\* history holds the RUN commands of the Dockerfile in the same order gets a
\* layers score greater than 0.
C30_InspectedHistoryIsAligned ==
    bench_scores # <<>> =>
        /\ {hc.idx : hc \in Range(bench_scores[1].candidates)}
              = CreatingPositions(bench_scores[1].history)
        /\ RunsInOrder(bench_args.dockerfile_instructions, bench_args.image_history)
              => RLt(Zero, bench_scores[1].result.score)

\* the inspected history holds the RUN commands of the Dockerfile in order,
\* no entry is a candidate and the layers score is 0
C30_InOrderHistoryScoresZero ==
    /\ bench_scores # <<>>
    /\ RunsInOrder(bench_args.dockerfile_instructions, bench_args.image_history)
    /\ \A k \in 1..Len(bench_scores[1].history) :
          bench_scores[1].history[k].CreatedBy = bench_args.image_history[k]
    /\ bench_scores[1].candidates = <<>>
    /\ bench_scores[1].result.score = Zero
    /\ bench_scores[1].result.details = "No layer matches found"

-----------------------------------------------------------------------------
(* SBOMStorage and the /sbom endpoints (sbom_storage.py, endpoints/sbom.py). *)
(* The table sboms is a set of rows: the queries carry no ORDER BY, so a     *)
(* query that returns several rows may return them in any order.  The        *)
(* endpoints wrap their whole body in try/except; an outcome is either a     *)
(* returned value or a raised exception, and the except clauses map it to    *)
(* the response.                                                              *)

MaxSboms == 3
MaxRequests == 3

\* the ids the database can generate (gen_random_uuid)
SbomIds == 1..MaxSboms

\* the image references of the requests
SbomSources == {"app:1", "app:2"}

\* a row of the table sboms
SBOMRecord(id, source_type, source_id) ==
  [id |-> id, source_type |-> source_type, source_id |-> source_id]

\* the outcome of a block of code: a returned value
EndpointReturns(value) == [raised |-> "", status_code |-> 200, value |-> value]

\* the outcome of a block of code: a raised exception
EndpointRaises(exception, status_code) ==
  [raised |-> exception, status_code |-> status_code, value |-> <<>>]

\* the row with the given id, or None
RecordOf(table, sbom_id) ==
  IF \E r \in table : r.id = sbom_id
  THEN Some(CHOOSE r \in table : r.id = sbom_id)
  ELSE None

\* the sequences that list every element of the set S once
Orderings(S) ==
  {order \in [1..Cardinality(S) -> S] : \A x \in S : \E i \in DOMAIN order : order[i] = x}

\* get_sboms_by_source: the rows of the source, in any order
GetSbomsBySource(table, source_type, source_id) ==
  Orderings({r \in table : r.source_type = source_type /\ r.source_id = source_id})

\* the body of the try block of the endpoint get_sbom
GetSbomBody(table, sbom_id, storage_fails) ==
  IF storage_fails THEN EndpointRaises("SBOMStorageError", 0)
  ELSE IF RecordOf(table, sbom_id) = None THEN EndpointRaises("HTTPException", 404)
  ELSE EndpointReturns(RecordOf(table, sbom_id))

\* the body of the try block of the endpoint delete_sbom
DeleteSbomBody(table, sbom_id, storage_fails) ==
  IF storage_fails THEN EndpointRaises("SBOMStorageError", 0)
  ELSE IF RecordOf(table, sbom_id) = None THEN EndpointRaises("HTTPException", 404)
  ELSE EndpointReturns(<<TRUE>>)

\* the except clauses of the endpoints: SBOMGenerationError, then
\* SBOMStorageError, then Exception, of which HTTPException is a subclass
ExceptClauses(outcome) ==
  IF outcome.raised = "" THEN outcome
  ELSE IF outcome.raised = "SBOMGenerationError" THEN EndpointRaises("HTTPException", 400)
  ELSE IF outcome.raised = "SBOMStorageError" THEN EndpointRaises("HTTPException", 500)
  ELSE EndpointRaises("HTTPException", 500)

\* what a request and its response were
Response(request, sbom_id, was_stored, storage_failed, stored_id, outcome) ==
  [request |-> request, sbom_id |-> sbom_id, was_stored |-> was_stored,
   storage_failed |-> storage_failed, stored_id |-> stored_id,
   status_code |-> outcome.status_code, value |-> outcome.value]

SbomIdle == sboms = {} /\ responses = <<>>

InitSbom ==
  /\ sboms \in {{}, {SBOMRecord(1, "container", "app:1")}}
  /\ responses = <<>>

\* GET /sbom/{sbom_id}
GetSbomWith(sbom_id, storage_fails, outcome) ==
  /\ Len(responses) < MaxRequests
  /\ responses' = Append(responses,
       Response("GET", sbom_id, RecordOf(sboms, sbom_id) # None, storage_fails, None, outcome))
  /\ UNCHANGED sboms
  /\ UNCHANGED <<normVars, parseVars, packageVars, matchVars, inspectVars, loadVars, benchVars>>

GetSbom(sbom_id, storage_fails) ==
  GetSbomWith(sbom_id, storage_fails, ExceptClauses(GetSbomBody(sboms, sbom_id, storage_fails)))

\* DELETE /sbom/{sbom_id}
DeleteSbomWith(sbom_id, storage_fails, outcome) ==
  /\ Len(responses) < MaxRequests
  /\ responses' = Append(responses,
       Response("DELETE", sbom_id, RecordOf(sboms, sbom_id) # None, storage_fails, None, outcome))
  /\ sboms' = IF outcome.raised = "" THEN {r \in sboms : r.id # sbom_id} ELSE sboms
  /\ UNCHANGED <<normVars, parseVars, packageVars, matchVars, inspectVars, loadVars, benchVars>>

DeleteSbom(sbom_id, storage_fails) ==
  DeleteSbomWith(sbom_id, storage_fails,
                 ExceptClauses(DeleteSbomBody(sboms, sbom_id, storage_fails)))

\* POST /analyze/container fails before anything is stored: the generator
\* raises, or store_sbom raises and rolls back
AnalyzeContainerFails(image_ref, exception) ==
  /\ Len(responses) < MaxRequests
  /\ responses' = Append(responses,
       Response("POST", None, FALSE, exception = "SBOMStorageError", None,
                ExceptClauses(EndpointRaises(exception, 0))))
  /\ UNCHANGED sboms
  /\ UNCHANGED <<normVars, parseVars, packageVars, matchVars, inspectVars, loadVars, benchVars>>

\* POST /analyze/container: store_sbom inserts a row with a fresh id, then the
\* response is the first row get_sboms_by_source returns for the reference
AnalyzeContainerWith(image_ref, sbom_id, stored_sboms) ==
  /\ Len(responses) < MaxRequests
  /\ sbom_id \notin {r.id : r \in sboms}
  /\ sboms' = sboms \cup {SBOMRecord(sbom_id, "container", image_ref)}
  /\ responses' = Append(responses,
       Response("POST", None, FALSE, FALSE, Some(sbom_id),
                ExceptClauses(IF stored_sboms = <<>>
                              THEN EndpointRaises("HTTPException", 500)
                              ELSE EndpointReturns(stored_sboms[1]))))
  /\ UNCHANGED <<normVars, parseVars, packageVars, matchVars, inspectVars, loadVars, benchVars>>

AnalyzeContainer(image_ref, sbom_id) ==
  \E stored_sboms \in GetSbomsBySource(sboms \cup {SBOMRecord(sbom_id, "container", image_ref)},
                                       "container", image_ref) :
    AnalyzeContainerWith(image_ref, sbom_id, stored_sboms)

NextSbom ==
  \/ \E sbom_id \in SbomIds, storage_fails \in BOOLEAN : GetSbom(sbom_id, storage_fails)
  \/ \E sbom_id \in SbomIds, storage_fails \in BOOLEAN : DeleteSbom(sbom_id, storage_fails)
  \/ \E image_ref \in SbomSources, exception \in {"SBOMGenerationError", "SBOMStorageError"} :
       AnalyzeContainerFails(image_ref, exception)
  \/ \E image_ref \in SbomSources, sbom_id \in SbomIds : AnalyzeContainer(image_ref, sbom_id)

\* C27: a GET or DELETE of /sbom/{sbom_id} answers 404 whenever no SBOM with
\* that id is stored and the storage works, and answers 500 only when the
\* storage itself failed.
C27_NotFoundAnswers404 ==
  \A i \in DOMAIN responses :
    responses[i].request \in {"GET", "DELETE"} =>
      /\ (~responses[i].was_stored /\ ~responses[i].storage_failed)
           => responses[i].status_code = 404
      /\ responses[i].status_code = 500 => responses[i].storage_failed

\* a GET and a DELETE of an id that is not stored, with a working storage,
\* have both been answered with 500
C27_NotFoundAnswered500 ==
  /\ \E i \in DOMAIN responses :
       /\ responses[i].request = "GET"
       /\ ~responses[i].was_stored /\ ~responses[i].storage_failed
       /\ responses[i].status_code = 500
  /\ \E i \in DOMAIN responses :
       /\ responses[i].request = "DELETE"
       /\ ~responses[i].was_stored /\ ~responses[i].storage_failed
       /\ responses[i].status_code = 500

\* C29: the response of every successful POST /analyze/container describes
\* the record that the same request stored: its id is the id store_sbom
\* returned.
C29_ResponseDescribesStoredRecord ==
  \A i \in DOMAIN responses :
    (responses[i].request = "POST" /\ responses[i].status_code = 200) =>
      responses[i].value.id = responses[i].stored_id[1]

\* a successful POST for a reference that already had an SBOM was answered
\* with the earlier record of that reference
C29_EarlierRecordReturned ==
  \E i \in DOMAIN responses :
    /\ responses[i].request = "POST" /\ responses[i].status_code = 200
    /\ responses[i].value.id # responses[i].stored_id[1]
    /\ responses[i].value.source_id =
         (CHOOSE r \in sboms : r.id = responses[i].stored_id[1]).source_id

-----------------------------------------------------------------------------
(* The specifications: each runs one component and leaves the others idle *)

InitNormOnly == InitNorm /\ ParseIdle /\ PackageIdle /\ MatchIdle /\ InspectIdle /\ LoadIdle /\ BenchIdle /\ SbomIdle
InitEquivOnly == InitEquiv /\ ParseIdle /\ PackageIdle /\ MatchIdle /\ InspectIdle /\ LoadIdle /\ BenchIdle /\ SbomIdle
InitParseOnly == InitParse /\ NormIdle /\ PackageIdle /\ MatchIdle /\ InspectIdle /\ LoadIdle /\ BenchIdle /\ SbomIdle
InitPackageOnly == InitPackage /\ NormIdle /\ ParseIdle /\ MatchIdle /\ InspectIdle /\ LoadIdle /\ BenchIdle /\ SbomIdle
InitMatchOnly == InitMatch /\ NormIdle /\ ParseIdle /\ PackageIdle /\ InspectIdle /\ LoadIdle /\ BenchIdle /\ SbomIdle
InitClassifyOnly == InitClassify /\ NormIdle /\ ParseIdle /\ PackageIdle /\ InspectIdle /\ LoadIdle /\ BenchIdle /\ SbomIdle
InitThreadsOnly == InitThreads /\ NormIdle /\ ParseIdle /\ PackageIdle /\ InspectIdle /\ LoadIdle /\ BenchIdle /\ SbomIdle
InitInspectOnly == InitInspect /\ NormIdle /\ ParseIdle /\ PackageIdle /\ MatchIdle /\ LoadIdle /\ BenchIdle /\ SbomIdle
InitConcurrentOnly == InitConcurrent /\ NormIdle /\ ParseIdle /\ PackageIdle /\ MatchIdle /\ LoadIdle /\ BenchIdle /\ SbomIdle
InitLoadOnly == InitLoad /\ NormIdle /\ ParseIdle /\ PackageIdle /\ MatchIdle /\ InspectIdle /\ BenchIdle /\ SbomIdle
InitPortsOnly == InitPorts /\ NormIdle /\ ParseIdle /\ PackageIdle /\ MatchIdle /\ InspectIdle /\ LoadIdle /\ SbomIdle
InitPlatformOnly == InitPlatform /\ NormIdle /\ ParseIdle /\ PackageIdle /\ MatchIdle /\ InspectIdle /\ LoadIdle /\ SbomIdle
InitLayersOnly == InitLayers /\ NormIdle /\ ParseIdle /\ PackageIdle /\ MatchIdle /\ InspectIdle /\ LoadIdle /\ SbomIdle
InitWorkdirOnly == InitWorkdir /\ NormIdle /\ ParseIdle /\ PackageIdle /\ MatchIdle /\ InspectIdle /\ LoadIdle /\ SbomIdle
InitHistoryOnly == InitLayersOnly
InitSbomOnly == InitSbom /\ NormIdle /\ ParseIdle /\ PackageIdle /\ MatchIdle /\ InspectIdle /\ LoadIdle /\ BenchIdle

SpecNorm == InitNormOnly /\ [][NextNorm]_vars
SpecEquiv == InitEquivOnly /\ [][NextEquiv]_vars
SpecParse == InitParseOnly /\ [][NextParse]_vars
SpecPackage == InitPackageOnly /\ [][NextPackage]_vars
SpecMatch == InitMatchOnly /\ [][NextMatch]_vars
SpecClassify == InitClassifyOnly /\ [][NextMatch]_vars
SpecThreads == InitThreadsOnly /\ [][NextThreads]_vars
SpecInspect == InitInspectOnly /\ [][NextInspect]_vars
SpecConcurrent == InitConcurrentOnly /\ [][NextConcurrent]_vars
SpecLoad == InitLoadOnly /\ [][NextLoad]_vars
SpecPorts == InitPortsOnly /\ [][NextPorts]_vars
SpecPlatform == InitPlatformOnly /\ [][NextPlatform]_vars
SpecLayers == InitLayersOnly /\ [][NextLayers]_vars
SpecWorkdir == InitWorkdirOnly /\ [][NextWorkdir]_vars
SpecHistory == InitHistoryOnly /\ [][NextHistory]_vars
SpecSbom == InitSbomOnly /\ [][NextSbom]_vars

====
